---- MODULE Spec2Model ----
\* Header / Block data model of core/types/block.go.
\*
\* Go values that are reached through pointers live in a typed heap `mem`:
\*   mem.hdrs   Header structs
\*   mem.nums   integer cells (big.Int and uint64 behind a pointer)
\*   mem.hcells hash cells (common.Hash behind a pointer)
\*   mem.arrs   byte backing arrays (the storage behind a []byte)
\*   mem.lists  backing arrays of the body slices
\*   mem.scs    BlobSidecar structs
\*   mem.wits   ExecutionWitness structs
\*   mem.blks   Block structs
\* An address is an index into the heap sequence, Nil (0) is the nil
\* pointer, and allocation appends a cell.  A []byte is a slice header
\* [arr, len] over a backing array whose length is the slice's capacity.
EXTENDS Integers, Sequences, FiniteSets, TLC

VARIABLES mem, held, last, steps, procs

vars == <<mem, held, last, steps, procs>>

Nil == 0

\* ---------------------------------------------------------------- bounds
\* caller mutations per behaviour
MaxMut == 1
\* API operations per behaviour
MaxOps == 2
\* CopyHeader calls, and writes to the headers, of the CopyHeader caller
MaxCopies == 1
MaxCopyMut == 2
\* concurrent callers of Block.Hash
NProcs == 3

\* ---------------------------------------------------------------- hashes
\* A 32-byte value given by a caller; RawHash(0) is common.Hash{}.
RawHash(i) == <<"h", i>>
ZeroHash == RawHash(0)
\* the RLP empty string (0x80) where a nil *common.Hash is encoded
EmptyString == <<>>

\* the sentinels of hashes.go and the external hashing capabilities
\* DeriveSha: the trie root of a list, an injective function of the list
DeriveSha(elems) == <<"root", elems>>
EmptyRootHash == DeriveSha(<<>>)
EmptyTxsHash == EmptyRootHash
EmptyReceiptsHash == EmptyRootHash
EmptyWithdrawalsHash == EmptyRootHash

\* ---------------------------------------------------------------- heap
\* the package variable EmptyWithdrawalsHash, the one hash cell that exists
\* before any header
EmptyWithdrawalsHashAddr == 1
EmptyMem ==
  [hdrs |-> <<>>, nums |-> <<>>, hcells |-> <<EmptyWithdrawalsHash>>, arrs |-> <<>>,
   lists |-> <<>>, scs |-> <<>>, wits |-> <<>>, blks |-> <<>>]

AllocNum(m, v) == [m EXCEPT !.nums = Append(@, v)]
AllocHash(m, v) == [m EXCEPT !.hcells = Append(@, v)]
AllocArr(m, bytes) == [m EXCEPT !.arrs = Append(@, bytes)]
AllocHdr(m, rec) == [m EXCEPT !.hdrs = Append(@, rec)]
AllocList(m, elems) == [m EXCEPT !.lists = Append(@, elems)]
AllocBlk(m, rec) == [m EXCEPT !.blks = Append(@, rec)]

\* the value behind an optional pointer, <<>> when the pointer is nil
OptNum(m, p) == IF p = Nil THEN <<>> ELSE <<m.nums[p]>>
OptHash(m, p) == IF p = Nil THEN <<>> ELSE <<m.hcells[p]>>

\* the bytes a slice header [arr, len] shows
SliceBytes(m, s) == IF s.arr = Nil THEN <<>> ELSE SubSeq(m.arrs[s.arr], 1, s.len)
NilSlice == [arr |-> Nil, len |-> 0]

\* ---------------------------------------------------------------- Header
\* The fields of a Header as values: pointers dereferenced, Extra as the
\* bytes it shows.  Two headers are field-equal iff their HeaderVal agree.
HeaderVal(m, h) ==
  LET s == m.hdrs[h] IN
  [ParentHash |-> s.ParentHash, UncleHash |-> s.UncleHash, Coinbase |-> s.Coinbase,
   Root |-> s.Root, TxHash |-> s.TxHash, ReceiptHash |-> s.ReceiptHash,
   Bloom |-> s.Bloom,
   Difficulty |-> OptNum(m, s.Difficulty), Number |-> OptNum(m, s.Number),
   GasLimit |-> s.GasLimit, GasUsed |-> s.GasUsed, Time |-> s.Time,
   Extra |-> SliceBytes(m, s.Extra), ExtraNil |-> (s.Extra.arr = Nil),
   MixDigest |-> s.MixDigest, Nonce |-> s.Nonce,
   BaseFee |-> OptNum(m, s.BaseFee),
   WithdrawalsHash |-> OptHash(m, s.WithdrawalsHash),
   BlobGasUsed |-> OptNum(m, s.BlobGasUsed),
   ExcessBlobGas |-> OptNum(m, s.ExcessBlobGas),
   ParentBeaconRoot |-> OptHash(m, s.ParentBeaconRoot),
   RequestsHash |-> OptHash(m, s.RequestsHash)]

\* The result of a call that allocates: the memory after it and the address.
NewHdr(m, rec) == [m |-> AllocHdr(m, rec), ret |-> Len(m.hdrs) + 1]
NewBlk(m, rec) == [m |-> AllocBlk(m, rec), ret |-> Len(m.blks) + 1]
HeaderFieldNames ==
  {"ParentHash", "UncleHash", "Coinbase", "Root", "TxHash", "ReceiptHash", "Bloom",
   "Difficulty", "Number", "GasLimit", "GasUsed", "Time", "Extra", "MixDigest",
   "Nonce", "BaseFee", "WithdrawalsHash", "BlobGasUsed", "ExcessBlobGas",
   "ParentBeaconRoot", "RequestsHash"}

\* Building a Header struct from field values: r is the memory r.m and the
\* struct under construction r.c, whose pointer fields are set one by one.
PutNum(r, f) ==
  IF r.c[f] = <<>> THEN [r EXCEPT !.c[f] = Nil]
  ELSE [m |-> AllocNum(r.m, r.c[f][1]), c |-> [r.c EXCEPT ![f] = Len(r.m.nums) + 1]]
PutHash(r, f) ==
  IF r.c[f] = <<>> THEN [r EXCEPT !.c[f] = Nil]
  ELSE [m |-> AllocHash(r.m, r.c[f][1]), c |-> [r.c EXCEPT ![f] = Len(r.m.hcells) + 1]]
PutExtra(r) ==
  IF r.c.ExtraNil THEN [r EXCEPT !.c.Extra = NilSlice]
  ELSE [m |-> AllocArr(r.m, r.c.Extra \o [i \in 1..(r.c.ExtraCap - Len(r.c.Extra)) |-> 0]),
        c |-> [r.c EXCEPT !.Extra = [arr |-> Len(r.m.arrs) + 1, len |-> Len(r.c.Extra)]]]
PutStruct(r) == AllocHdr(r.m, [f \in HeaderFieldNames |-> r.c[f]])

\* Builds in the heap the Header struct that shows the values v (the inverse
\* of HeaderVal); v.ExtraCap is the capacity of the Extra slice.
MkHeader(m, v) ==
  PutStruct(PutHash(PutHash(PutHash(PutNum(PutNum(PutNum(PutNum(PutNum(PutExtra(
    [m |-> m, c |-> v]),
    "Difficulty"), "Number"), "BaseFee"), "BlobGasUsed"), "ExcessBlobGas"),
    "WithdrawalsHash"), "ParentBeaconRoot"), "RequestsHash"))

\* The list of field encodings Header.EncodeRLP writes.  A nil *big.Int or
\* *uint64 is written as the empty string, which is also the encoding of 0;
\* a nil *common.Hash before a later present optional field is written as
\* the empty string; trailing absent optional fields are omitted.
HeaderRLP(m, h) ==
  LET s == m.hdrs[h]
      int(p) == IF p = Nil THEN 0 ELSE m.nums[p]
      hsh(p) == IF p = Nil THEN EmptyString ELSE m.hcells[p]
      t6 == s.RequestsHash # Nil
      t5 == t6 \/ s.ParentBeaconRoot # Nil
      t4 == t5 \/ s.ExcessBlobGas # Nil
      t3 == t4 \/ s.BlobGasUsed # Nil
      t2 == t3 \/ s.WithdrawalsHash # Nil
      t1 == t2 \/ s.BaseFee # Nil
      opt(t, x) == IF t THEN <<x>> ELSE <<>>
  IN <<s.ParentHash, s.UncleHash, s.Coinbase, s.Root, s.TxHash, s.ReceiptHash,
       s.Bloom, int(s.Difficulty), int(s.Number), s.GasLimit, s.GasUsed, s.Time,
       SliceBytes(m, s.Extra), s.MixDigest, s.Nonce>>
     \o opt(t1, int(s.BaseFee)) \o opt(t2, hsh(s.WithdrawalsHash))
     \o opt(t3, int(s.BlobGasUsed)) \o opt(t4, int(s.ExcessBlobGas))
     \o opt(t5, hsh(s.ParentBeaconRoot)) \o opt(t6, hsh(s.RequestsHash))

\* rlpHash: Keccak-256 of the encoding, kept as an injective function of it
HeaderHash(m, h) == <<"keccak", "header", HeaderRLP(m, h)>>

\* the heap cells a Header value owns: what a write through it can reach
HeaderStorage(m, h) ==
  LET s == m.hdrs[h] IN
  {<<"num", p>> : p \in {s.Difficulty, s.Number, s.BaseFee, s.BlobGasUsed,
                         s.ExcessBlobGas} \ {Nil}}
  \cup {<<"hash", p>> : p \in {s.WithdrawalsHash, s.ParentBeaconRoot,
                               s.RequestsHash} \ {Nil}}
  \cup (IF s.Extra.arr # Nil /\ Len(m.arrs[s.Extra.arr]) > 0
        THEN {<<"arr", s.Extra.arr>>} ELSE {})

\* CopyHeader, step by step: r is the memory r.m and the struct cpy r.c,
\* which starts as *h, so that r.c[f] is h's pointer until f is duplicated.
\* cpy.f = new(big.Int); if h.f != nil { cpy.f.Set(h.f) }
DupBigAlways(r, f) ==
  [m |-> AllocNum(r.m, IF r.c[f] # Nil THEN r.m.nums[r.c[f]] ELSE 0),
   c |-> [r.c EXCEPT ![f] = Len(r.m.nums) + 1]]
\* if h.f != nil { cpy.f = new(..); *cpy.f = *h.f }
DupNum(r, f) ==
  IF r.c[f] = Nil THEN r
  ELSE [m |-> AllocNum(r.m, r.m.nums[r.c[f]]), c |-> [r.c EXCEPT ![f] = Len(r.m.nums) + 1]]
DupHash(r, f) ==
  IF r.c[f] = Nil THEN r
  ELSE [m |-> AllocHash(r.m, r.m.hcells[r.c[f]]),
        c |-> [r.c EXCEPT ![f] = Len(r.m.hcells) + 1]]
\* if len(h.Extra) > 0 { cpy.Extra = make([]byte, len(h.Extra)); copy(..) }
DupExtra(r) ==
  IF r.c.Extra.len > 0
  THEN [m |-> AllocArr(r.m, SliceBytes(r.m, r.c.Extra)),
        c |-> [r.c EXCEPT !.Extra = [arr |-> Len(r.m.arrs) + 1, len |-> r.c.Extra.len]]]
  ELSE r
\* return &cpy
CopyDone(r) == NewHdr(r.m, r.c)

\* A CopyHeader that stops at the struct copy (cpy := *h; return &cpy).
CopyHeaderShallow(m, h) == NewHdr(m, m.hdrs[h])

\* CopyHeader creates a deep copy of a block header.
CopyHeader(m, h) ==
  CopyDone(DupHash(DupHash(DupNum(DupNum(DupHash(DupExtra(DupNum(
    DupBigAlways(DupBigAlways([m |-> m, c |-> m.hdrs[h]], "Difficulty"), "Number"),
    "BaseFee")), "WithdrawalsHash"), "ExcessBlobGas"), "BlobGasUsed"),
    "ParentBeaconRoot"), "RequestsHash"))

\* ---------------------------------------------------------------- Block
\* rlpHash of a list of headers
UnclesRLPHash(m, hs) == <<"keccak", "uncles", [i \in 1..Len(hs) |-> HeaderRLP(m, hs[i])]>>
EmptyUncleHash == <<"keccak", "uncles", <<>>>>
\* CreateBloom: the bit-or of the receipts' blooms (receipt 21 sets bit 1,
\* receipt 22 sets bit 2)
CreateBloom(rs) ==
  (IF \E i \in 1..Len(rs) : rs[i] = 21 THEN 1 ELSE 0)
  + (IF \E i \in 1..Len(rs) : rs[i] = 22 THEN 2 ELSE 0)
ZeroBloom == 0

\* len(s) and the elements of a body slice held as a list address
SliceLen(m, l) == IF l = Nil THEN 0 ELSE Len(m.lists[l])
SliceElems(m, l) == IF l = Nil THEN <<>> ELSE m.lists[l]

\* &Block{}: every field zero
ZeroBlock ==
  [header |-> Nil, uncles |-> Nil, transactions |-> Nil, withdrawals |-> Nil,
   witness |-> Nil, hash |-> <<>>, size |-> 0, sidecars |-> Nil]

\* for i := range hs { out[i] = CopyHeader(hs[i]) }: the memory after the
\* copies and their addresses
AppendCopy(prev, c) == [m |-> c.m, ret |-> Append(prev.ret, c.ret)]
CopyHeaders(m, hs) ==
  LET upto[i \in 0..Len(hs)] ==
        IF i = 0 THEN [m |-> m, ret |-> <<>>]
        ELSE AppendCopy(upto[i - 1], CopyHeader(upto[i - 1].m, hs[i]))
  IN upto[Len(hs)]

CalcUncleHash(m, uncles) ==
  IF Len(uncles) = 0 THEN EmptyUncleHash ELSE UnclesRLPHash(m, uncles)

\* &Block{header: c}
BlockOfHeader(c) == NewBlk(c.m, [ZeroBlock EXCEPT !.header = c.ret])

\* NewBlockWithHeader creates a block with the given header data.
NewBlockWithHeader(m, header) == BlockOfHeader(CopyHeader(m, header))

\* NewBlock, the transactions: the root, and the block's own copy of the slice
NewBlockTxs(m, b, txs) ==
  IF SliceLen(m, txs) = 0
  THEN [m EXCEPT !.hdrs[m.blks[b].header].TxHash = EmptyTxsHash]
  ELSE [AllocList(m, m.lists[txs])
          EXCEPT !.hdrs[m.blks[b].header].TxHash = DeriveSha(m.lists[txs]),
                 !.blks[b].transactions = Len(m.lists) + 1]

\* NewBlock, the receipts: the receipt root always, the bloom only when
\* there are receipts.
NewBlockReceipts(m, b, receipts) ==
  IF SliceLen(m, receipts) = 0
  THEN [m EXCEPT !.hdrs[m.blks[b].header].ReceiptHash = EmptyReceiptsHash]
  ELSE [m EXCEPT !.hdrs[m.blks[b].header].ReceiptHash = DeriveSha(m.lists[receipts]),
                 !.hdrs[m.blks[b].header].Bloom = CreateBloom(m.lists[receipts])]

\* b.uncles = the copies cu, b.header.UncleHash = hash
StoreUncles(cu, b, hash) ==
  [AllocList(cu.m, cu.ret)
     EXCEPT !.hdrs[cu.m.blks[b].header].UncleHash = hash,
            !.blks[b].uncles = Len(cu.m.lists) + 1]

\* NewBlock, the uncles: the hash of the list, and deep copies of the headers
NewBlockUncles(m, b, uncles) ==
  IF SliceLen(m, uncles) = 0
  THEN [m EXCEPT !.hdrs[m.blks[b].header].UncleHash = EmptyUncleHash]
  ELSE StoreUncles(CopyHeaders(m, m.lists[uncles]), b, CalcUncleHash(m, m.lists[uncles]))

\* A withdrawals step that leaves the header's root alone for a nil slice.
NewBlockWithdrawalsKeepRoot(m, b, withdrawals) ==
  IF withdrawals = Nil
  THEN m
  ELSE IF SliceLen(m, withdrawals) = 0
  THEN [AllocList(m, <<>>)
          EXCEPT !.hdrs[m.blks[b].header].WithdrawalsHash = EmptyWithdrawalsHashAddr,
                 !.blks[b].withdrawals = Len(m.lists) + 1]
  ELSE [AllocList(AllocHash(m, DeriveSha(m.lists[withdrawals])),
                  m.lists[withdrawals])
          EXCEPT !.hdrs[m.blks[b].header].WithdrawalsHash = Len(m.hcells) + 1,
                 !.blks[b].withdrawals = Len(m.lists) + 1]

\* NewBlock, the withdrawals: nil, empty (&EmptyWithdrawalsHash, Withdrawals{})
\* and non-empty (a new hash, slices.Clone)
NewBlockWithdrawals(m, b, withdrawals) ==
  IF withdrawals = Nil
  THEN [m EXCEPT !.hdrs[m.blks[b].header].WithdrawalsHash = Nil]
  ELSE IF SliceLen(m, withdrawals) = 0
  THEN [AllocList(m, <<>>)
          EXCEPT !.hdrs[m.blks[b].header].WithdrawalsHash = EmptyWithdrawalsHashAddr,
                 !.blks[b].withdrawals = Len(m.lists) + 1]
  ELSE [AllocList(AllocHash(m, DeriveSha(m.lists[withdrawals])),
                  m.lists[withdrawals])
          EXCEPT !.hdrs[m.blks[b].header].WithdrawalsHash = Len(m.hcells) + 1,
                 !.blks[b].withdrawals = Len(m.lists) + 1]

\* the Body a nil *Body stands for
EmptyBody == [Transactions |-> Nil, Uncles |-> Nil, Withdrawals |-> Nil]

\* NewBlock after b = NewBlockWithHeader(header): the four derived parts
NewBlockFill(nb, bd, receipts) ==
  [m |-> NewBlockWithdrawals(
           NewBlockUncles(
             NewBlockReceipts(
               NewBlockTxs(nb.m, nb.ret, bd.Transactions),
               nb.ret, receipts),
             nb.ret, bd.Uncles),
           nb.ret, bd.Withdrawals),
   ret |-> nb.ret]

\* NewBlock creates a new block; body is <<>> (nil) or <<Body>>.
NewBlock(m, header, body, receipts) ==
  NewBlockFill(NewBlockWithHeader(m, header),
               IF body = <<>> THEN EmptyBody ELSE body[1], receipts)

\* Header returns the block header (as a copy).
BlockHeader(m, b) == CopyHeader(m, m.blks[b].header)

\* SetRoot: b.header.Root = root
SetRoot(m, b, root) == [m EXCEPT !.hdrs[m.blks[b].header].Root = root]

\* CleanSidecars: b.sidecars = make(BlobSidecars, 0)
CleanSidecars(m, b) ==
  [AllocList(m, <<>>) EXCEPT !.blks[b].sidecars = Len(m.lists) + 1]

\* A block under construction from the block blk: s is the memory s.m and
\* the new struct s.c.
\* f: slices.Clone(l), or make and copy when l is not nil
PutClone(s, f, l) ==
  IF l = Nil THEN [s EXCEPT !.c[f] = Nil]
  ELSE [m |-> AllocList(s.m, s.m.lists[l]), c |-> [s.c EXCEPT ![f] = Len(s.m.lists) + 1]]
\* uncles: make([]*Header, len(..)) filled with the copies cu
PutUncles(s, cu) ==
  [m |-> AllocList(cu.m, cu.ret), c |-> [s.c EXCEPT !.uncles = Len(cu.m.lists) + 1]]
PutUncleCopies(s, hs) == PutUncles(s, CopyHeaders(s.m, hs))
PutHeader(c, blk) == [m |-> c.m, c |-> [blk EXCEPT !.header = c.ret]]
PutBlock(s) == NewBlk(s.m, s.c)

\* A WithSeal that leaves the sidecars as they are.
FillSidecarsSkipped(m, scs, header) == m

\* for _, sidecar := range b.sidecars: the header's number (the caller's
\* *big.Int itself) and hash go into every sidecar of b
FillSidecars(m, scs, header) ==
  [m EXCEPT !.scs = [a \in DOMAIN m.scs |->
                       IF \E i \in 1..Len(scs) : scs[i] = a
                       THEN [BlockNumber |-> m.hdrs[header].Number,
                             BlockHash |-> HeaderHash(m, header)]
                       ELSE m.scs[a]]]

\* the fields a new block takes from b; the caches start unset
Facets(blk) == [ZeroBlock EXCEPT !.header = blk.header,
                                 !.transactions = blk.transactions,
                                 !.uncles = blk.uncles,
                                 !.withdrawals = blk.withdrawals,
                                 !.witness = blk.witness,
                                 !.sidecars = blk.sidecars]

\* WithSeal returns a new block with the data from b but the header replaced
\* with the sealed one.
WithSeal(m, b, header) ==
  PutBlock(PutHeader(
    CopyHeader(FillSidecars(m, SliceElems(m, m.blks[b].sidecars), header), header),
    Facets(m.blks[b])))

\* WithBody returns a new block with the original header and a deep copy of
\* the provided body.
WithBody(m, b, body) ==
  PutBlock(PutClone(PutUncleCopies(PutClone(
    [m |-> m, c |-> Facets(m.blks[b])],
    "transactions", body.Transactions),
    SliceElems(m, body.Uncles)),
    "withdrawals", body.Withdrawals))

\* A WithWithdrawals that stores withdrawals only if there are any.
WithWithdrawalsDropEmpty(m, b, withdrawals) ==
  IF SliceLen(m, withdrawals) = 0
  THEN NewBlk(m, [Facets(m.blks[b]) EXCEPT !.withdrawals = Nil])
  ELSE PutBlock(PutClone([m |-> m, c |-> Facets(m.blks[b])], "withdrawals", withdrawals))

\* WithWithdrawals returns a copy of the block containing the given withdrawals.
WithWithdrawals(m, b, withdrawals) ==
  PutBlock(PutClone([m |-> m, c |-> Facets(m.blks[b])], "withdrawals", withdrawals))

\* A WithSidecars that keeps the caller's slice.
WithSidecarsAliased(m, b, sidecars) ==
  NewBlk(m, [Facets(m.blks[b]) EXCEPT !.sidecars = sidecars])

\* WithSidecars returns a block containing the given blobs.
WithSidecars(m, b, sidecars) ==
  PutBlock(PutClone([m |-> m, c |-> Facets(m.blks[b])], "sidecars", sidecars))

WithWitness(m, b, witness) ==
  NewBlk(m, [Facets(m.blks[b]) EXCEPT !.witness = witness])

\* A store that publishes a pointer to a zero value instead of h.
StoreHashZero(m, b, h) == [m |-> [m EXCEPT !.blks[b].hash = <<ZeroHash>>], ret |-> h]

\* b.hash.Store(&h); return h
StoreHash(m, b, h) == [m |-> [m EXCEPT !.blks[b].hash = <<h>>], ret |-> h]

\* Hash returns the keccak256 hash of b's header, cached after the first call.
BlockHash(m, b) ==
  IF m.blks[b].hash # <<>> THEN [m |-> m, ret |-> m.blks[b].hash[1]]
  ELSE StoreHash(m, b, HeaderHash(m, m.blks[b].header))

\* ---------------------------------------------------------------- wire
\* RLP sizes.  IntBytes: the bytes of the shortest big-endian form.
IntBytes(v) == IF v = 0 THEN 0 ELSE IF v < 256 THEN 1 ELSE IF v < 65536 THEN 2 ELSE 3
\* the head of a string or list of n content bytes
HeadSize(n) == IF n < 56 THEN 1 ELSE 1 + IntBytes(n)
\* rlp.ListSize: the encoded size of a list with the given content size
ListSize(n) == n + HeadSize(n)
IntSize(v) == IF v < 128 THEN 1 ELSE 1 + IntBytes(v)
BytesSize(bs) == IF Len(bs) = 1 /\ bs[1] < 128 THEN 1 ELSE Len(bs) + HeadSize(Len(bs))
\* a 32-byte hash, or the empty string where a nil hash is written
HashSize(x) == IF x = EmptyString THEN 1 ELSE 33
AddressSize == 20 + 1
BloomSize == 256 + 3
NonceSize == 8 + 1
\* encoded sizes of the opaque body elements
TxSize(t) == IF t = 11 THEN 110 ELSE 40
WithdrawalSize(w) == 20

SumSizes(Size(_), xs) ==
  LET sum[i \in 0..Len(xs)] == IF i = 0 THEN 0 ELSE sum[i - 1] + Size(xs[i])
  IN sum[Len(xs)]

\* the content size of an encoded header, given its field encodings
HeaderItemsSize(it) ==
  33 + 33 + AddressSize + 33 + 33 + 33 + BloomSize
  + IntSize(it[8]) + IntSize(it[9]) + IntSize(it[10]) + IntSize(it[11])
  + IntSize(it[12]) + BytesSize(it[13]) + 33 + NonceSize
  + (IF Len(it) >= 16 THEN IntSize(it[16]) ELSE 0)
  + (IF Len(it) >= 17 THEN HashSize(it[17]) ELSE 0)
  + (IF Len(it) >= 18 THEN IntSize(it[18]) ELSE 0)
  + (IF Len(it) >= 19 THEN IntSize(it[19]) ELSE 0)
  + (IF Len(it) >= 20 THEN HashSize(it[20]) ELSE 0)
  + (IF Len(it) >= 21 THEN HashSize(it[21]) ELSE 0)
WireHeaderSize(it) == ListSize(HeaderItemsSize(it))

\* EncodeRLP serializes a block as the extblock [Header, Txs, Uncles,
\* Withdrawals]; the optional Withdrawals is written iff the slice is non-nil.
EncodeRLP(m, b) ==
  LET blk == m.blks[b]
      us == SliceElems(m, blk.uncles)
  IN [hdr |-> HeaderRLP(m, blk.header),
      txs |-> SliceElems(m, blk.transactions),
      uncles |-> [i \in 1..Len(us) |-> HeaderRLP(m, us[i])],
      wds |-> IF blk.withdrawals = Nil THEN <<>> ELSE <<m.lists[blk.withdrawals]>>]

\* the content size of an encoded extblock: what Stream.Kind reports
WireContentSize(w) ==
  WireHeaderSize(w.hdr)
  + ListSize(SumSizes(TxSize, w.txs))
  + ListSize(SumSizes(WireHeaderSize, w.uncles))
  + (IF w.wds = <<>> THEN 0 ELSE ListSize(SumSizes(WithdrawalSize, w.wds[1])))
\* the number of bytes of the encoding
WireSize(w) == ListSize(WireContentSize(w))

\* Whether the decoder accepts the header encoding: a hash field cannot
\* be read from the empty string.
HeaderDecodable(it) ==
  \A i \in {17, 20, 21} : Len(it) >= i => it[i] # EmptyString
WireDecodable(w) ==
  /\ HeaderDecodable(w.hdr)
  /\ \A i \in 1..Len(w.uncles) : HeaderDecodable(w.uncles[i])

\* Decoding a header: every required field gets a value, an optional
\* field is present iff the list is long enough to hold it.
DecodeHeader(m, it) ==
  LET opt(i) == IF Len(it) >= i THEN <<it[i]>> ELSE <<>>
  IN MkHeader(m,
       [ParentHash |-> it[1], UncleHash |-> it[2], Coinbase |-> it[3],
        Root |-> it[4], TxHash |-> it[5], ReceiptHash |-> it[6], Bloom |-> it[7],
        Difficulty |-> <<it[8]>>, Number |-> <<it[9]>>, GasLimit |-> it[10],
        GasUsed |-> it[11], Time |-> it[12], Extra |-> it[13], ExtraNil |-> FALSE,
        ExtraCap |-> Len(it[13]), MixDigest |-> it[14], Nonce |-> it[15],
        BaseFee |-> opt(16), WithdrawalsHash |-> opt(17), BlobGasUsed |-> opt(18),
        ExcessBlobGas |-> opt(19), ParentBeaconRoot |-> opt(20),
        RequestsHash |-> opt(21)])

AppendDecoded(prev, m1) == [m |-> m1, ret |-> Append(prev.ret, Len(m1.hdrs))]
DecodeHeaders(m, its) ==
  LET upto[i \in 0..Len(its)] ==
        IF i = 0 THEN [m |-> m, ret |-> <<>>]
        ELSE AppendDecoded(upto[i - 1], DecodeHeader(upto[i - 1].m, its[i]))
  IN upto[Len(its)]

\* b.size.Store(size): the content size, without the list head
StoredSizeContentOnly(size) == size

\* b.size.Store(rlp.ListSize(size))
StoredSize(size) == ListSize(size)

\* s.Decode(&eb) and the assignment of eb's fields to b, field by field
DecodeHdr(m, b, it) ==
  [DecodeHeader(m, it) EXCEPT !.blks[b].header = Len(m.hdrs) + 1]
DecodeList(m, b, f, elems) ==
  [AllocList(m, elems) EXCEPT !.blks[b][f] = Len(m.lists) + 1]
DecodeUncles(du, b) == DecodeList(du.m, b, "uncles", du.ret)
DecodeWithdrawals(m, b, wds) ==
  IF wds = <<>> THEN [m EXCEPT !.blks[b].withdrawals = Nil]
  ELSE DecodeList(m, b, "withdrawals", wds[1])

\* DecodeRLP decodes a block from RLP: on an error nothing is stored, else the
\* four fields are replaced and the size cache is set from the input's size.
DecodeRLP(m, b, w) ==
  IF ~WireDecodable(w) THEN [m |-> m, err |-> TRUE]
  ELSE [m |-> [DecodeWithdrawals(
                 DecodeUncles(
                   DecodeHeaders(
                     DecodeList(DecodeHdr(m, b, w.hdr), b, "transactions", w.txs),
                     w.uncles),
                   b),
                 b, w.wds)
                 EXCEPT !.blks[b].size = StoredSize(WireContentSize(w))],
        err |-> FALSE]

\* b.size.Store(uint64(c)); return uint64(c)
StoreSize(m, b, c) == [m |-> [m EXCEPT !.blks[b].size = c], ret |-> c]

\* Size returns the true RLP encoded storage size of the block, either by
\* encoding and returning it, or returning a previously cached value.
BlockSize(m, b) ==
  IF m.blks[b].size > 0 THEN [m |-> m, ret |-> m.blks[b].size]
  ELSE StoreSize(m, b, WireSize(EncodeRLP(m, b)))

\* ---------------------------------------------------------------- caller
\* the record of the operation that produced the current state
NoOp == [op |-> "init", recv |-> Nil, arg |-> Nil, ret |-> Nil, what |-> "",
         body |-> <<>>, rcpts |-> Nil, hash |-> <<>>, err |-> FALSE, items |-> <<>>]

HashFields == {"ParentHash", "UncleHash", "Root", "TxHash", "ReceiptHash", "MixDigest"}
NumFields == {"Coinbase", "Bloom", "GasLimit", "GasUsed", "Time", "Nonce"}
NumPtrFields == {"Difficulty", "Number", "BaseFee", "BlobGasUsed", "ExcessBlobGas"}
HashPtrFields == {"WithdrawalsHash", "ParentBeaconRoot", "RequestsHash"}

\* a value other than the one held
OtherNum(v) == IF v = 0 THEN 1 ELSE 0
OtherHash(v) == IF v = RawHash(1) THEN RawHash(0) ELSE RawHash(1)

Mutated(h, what, m) ==
  /\ mem' = m
  /\ last' = [NoOp EXCEPT !.op = "Mutate", !.recv = h, !.what = what]
  /\ steps' = [steps EXCEPT !.muts = @ + 1]
  /\ UNCHANGED <<held, procs>>

\* The caller writes to a Header it holds: a field assignment, a write in
\* place through one of the header's pointers, or into its Extra bytes.
Mutate(h) ==
  LET s == mem.hdrs[h] IN
     \/ \E f \in HashFields :          \* h.f = v
          Mutated(h, f, [mem EXCEPT !.hdrs[h][f] = OtherHash(@)])
     \/ \E f \in NumFields :
          Mutated(h, f, [mem EXCEPT !.hdrs[h][f] = OtherNum(@)])
     \/ \E f \in NumPtrFields :        \* h.f.Set(v), *h.f = v
          /\ s[f] # Nil
          /\ Mutated(h, f, [mem EXCEPT !.nums[s[f]] = OtherNum(@)])
     \/ \E f \in HashPtrFields :       \* *h.f = v
          /\ s[f] # Nil
          /\ Mutated(h, f, [mem EXCEPT !.hcells[s[f]] = OtherHash(@)])
     \/ \E f \in NumPtrFields :        \* h.f = nil, h.f = new(..)
          IF s[f] # Nil
          THEN Mutated(h, f, [mem EXCEPT !.hdrs[h][f] = Nil])
          ELSE Mutated(h, f, [AllocNum(mem, 1) EXCEPT !.hdrs[h][f] = Len(mem.nums) + 1])
     \/ \E f \in HashPtrFields :
          IF s[f] # Nil
          THEN Mutated(h, f, [mem EXCEPT !.hdrs[h][f] = Nil])
          ELSE Mutated(h, f, [AllocHash(mem, RawHash(1))
                                EXCEPT !.hdrs[h][f] = Len(mem.hcells) + 1])
     \/ \E i \in 1..s.Extra.len :      \* h.Extra[i] = v
          Mutated(h, "Extra", [mem EXCEPT !.arrs[s.Extra.arr][i] = OtherNum(@)])
     \/ \E v \in {0, 1} :              \* h.Extra = append(h.Extra, v)
          IF s.Extra.arr # Nil /\ s.Extra.len < Len(mem.arrs[s.Extra.arr])
          THEN \* capacity left: the byte is written into the backing array
               Mutated(h, "Extra", [mem EXCEPT !.arrs[s.Extra.arr][s.Extra.len + 1] = v,
                                               !.hdrs[h].Extra.len = @ + 1])
          ELSE Mutated(h, "Extra",
                 [AllocArr(mem, Append(SliceBytes(mem, s.Extra), v))
                    EXCEPT !.hdrs[h].Extra = [arr |-> Len(mem.arrs) + 1,
                                              len |-> s.Extra.len + 1]])

\* ---------------------------------------------------------------- API steps
\* One step per call of the API; `last` records the call and what it returned.

\* the blocks that have been built; a new(Block) whose decoding failed has no
\* header and is not one
Blocks == {b \in DOMAIN mem.blks : mem.blks[b].header # Nil}

Called(m, rec) ==
  /\ steps.ops < MaxOps
  /\ mem' = m
  /\ last' = rec
  /\ steps' = [steps EXCEPT !.ops = @ + 1]
  /\ held' = IF rec.op \in {"Header", "CopyHeader"}
             THEN [held EXCEPT !.hdrs = @ \cup {rec.ret}] ELSE held
  /\ UNCHANGED procs

\* a call that returned an address (or a size), and one that returned a hash
Returned(r, rec) == Called(r.m, [rec EXCEPT !.ret = r.ret])
ReturnedHash(r, rec) == Called(r.m, [rec EXCEPT !.hash = <<r.ret>>])
Decoded(r, rec) == Called(r.m, [rec EXCEPT !.err = r.err])

NewBlockWithHeaderOp(h) ==
  Returned(NewBlockWithHeader(mem, h), [NoOp EXCEPT !.op = "NewBlockWithHeader", !.arg = h])

NewBlockOp(h, body, receipts) ==
  Returned(NewBlock(mem, h, body, receipts),
           [NoOp EXCEPT !.op = "NewBlock", !.arg = h, !.body = body, !.rcpts = receipts])

WithSealOp(b, h) ==
  Returned(WithSeal(mem, b, h), [NoOp EXCEPT !.op = "WithSeal", !.recv = b, !.arg = h])

WithBodyOp(b, body) ==
  Returned(WithBody(mem, b, body),
           [NoOp EXCEPT !.op = "WithBody", !.recv = b, !.body = <<body>>])

WithWithdrawalsOp(b, l) ==
  Returned(WithWithdrawals(mem, b, l),
           [NoOp EXCEPT !.op = "WithWithdrawals", !.recv = b, !.arg = l])

WithSidecarsOp(b, l) ==
  Returned(WithSidecars(mem, b, l),
           [NoOp EXCEPT !.op = "WithSidecars", !.recv = b, !.arg = l])

WithWitnessOp(b, w) ==
  Returned(WithWitness(mem, b, w),
           [NoOp EXCEPT !.op = "WithWitness", !.recv = b, !.arg = w])

SetRootOp(b) ==
  Called(SetRoot(mem, b, OtherHash(mem.hdrs[mem.blks[b].header].Root)),
         [NoOp EXCEPT !.op = "SetRoot", !.recv = b])

CleanSidecarsOp(b) ==
  Called(CleanSidecars(mem, b), [NoOp EXCEPT !.op = "CleanSidecars", !.recv = b])

HashOp(b) == ReturnedHash(BlockHash(mem, b), [NoOp EXCEPT !.op = "Hash", !.recv = b])

SizeOp(b) ==
  Returned(BlockSize(mem, b),
           [NoOp EXCEPT !.op = "Size", !.recv = b,
                        !.what = IF mem.blks[b].size > 0 THEN "cached" ELSE "computed"])

\* h := b.Header(): the caller holds the returned header
HeaderOp(b) == Returned(BlockHeader(mem, b), [NoOp EXCEPT !.op = "Header", !.recv = b])

\* rlp decoding into an existing block
DecodeRLPOp(b, w) ==
  Decoded(DecodeRLP(mem, b, w), [NoOp EXCEPT !.op = "DecodeRLP", !.recv = b])

\* rlp decoding into new(Block)
DecodeNewOp(w) ==
  Decoded(DecodeRLP(AllocBlk(mem, ZeroBlock), Len(mem.blks) + 1, w),
          [NoOp EXCEPT !.op = "DecodeRLP", !.recv = Len(mem.blks) + 1])

\* The caller overwrites an element of a slice it holds.
MutateList(l, i, x) ==
  /\ steps.muts < MaxMut
  /\ mem.lists[l][i] # x
  /\ mem' = [mem EXCEPT !.lists[l][i] = x]
  /\ last' = [NoOp EXCEPT !.op = "MutateList", !.recv = l]
  /\ steps' = [steps EXCEPT !.muts = @ + 1]
  /\ UNCHANGED <<held, procs>>

\* The caller writes to a witness it holds.
MutateWitness(w) ==
  /\ steps.muts < MaxMut
  /\ mem' = [mem EXCEPT !.wits[w].StateDiff = OtherNum(@)]
  /\ last' = [NoOp EXCEPT !.op = "MutateWitness", !.recv = w]
  /\ steps' = [steps EXCEPT !.muts = @ + 1]
  /\ UNCHANGED <<held, procs>>

\* ---------------------------------------------------------------- inputs
BaseHeader ==
  [ParentHash |-> RawHash(1), UncleHash |-> RawHash(1), Coinbase |-> 1,
   Root |-> RawHash(1), TxHash |-> RawHash(1), ReceiptHash |-> RawHash(1),
   Bloom |-> 0, Difficulty |-> <<1>>, Number |-> <<1>>, GasLimit |-> 1,
   GasUsed |-> 0, Time |-> 1, Extra |-> <<1>>, ExtraNil |-> FALSE, ExtraCap |-> 1,
   MixDigest |-> ZeroHash, Nonce |-> 0, BaseFee |-> <<>>,
   WithdrawalsHash |-> <<>>, BlobGasUsed |-> <<>>, ExcessBlobGas |-> <<>>,
   ParentBeaconRoot |-> <<>>, RequestsHash |-> <<>>]

AllOptional ==
  [BaseHeader EXCEPT !.BaseFee = <<1>>, !.WithdrawalsHash = <<RawHash(1)>>,
                     !.BlobGasUsed = <<1>>, !.ExcessBlobGas = <<0>>,
                     !.ParentBeaconRoot = <<RawHash(1)>>,
                     !.RequestsHash = <<RawHash(0)>>]

\* The headers a caller starts with: the base header varied one way at a
\* time (absent Difficulty/Number, each optional field alone and all of
\* them, the shapes of Extra, a set bloom).
HeaderInputs ==
  {BaseHeader, AllOptional}
  \cup {[BaseHeader EXCEPT !.Difficulty = <<>>], [BaseHeader EXCEPT !.Number = <<>>],
        [AllOptional EXCEPT !.Difficulty = <<>>, !.Number = <<>>],
        [BaseHeader EXCEPT !.Difficulty = <<0>>, !.Number = <<0>>]}
  \cup {[BaseHeader EXCEPT ![f] = <<1>>] : f \in {"BaseFee", "BlobGasUsed", "ExcessBlobGas"}}
  \cup {[BaseHeader EXCEPT ![f] = <<RawHash(1)>>] : f \in HashPtrFields}
  \cup {[BaseHeader EXCEPT !.Extra = <<>>, !.ExtraNil = TRUE, !.ExtraCap = 0],
        [BaseHeader EXCEPT !.Extra = <<>>, !.ExtraCap = 0],
        [BaseHeader EXCEPT !.Extra = <<>>, !.ExtraCap = 1],
        [AllOptional EXCEPT !.Extra = <<1, 0>>, !.ExtraCap = 2]}
  \cup {[BaseHeader EXCEPT !.Bloom = 1]}

\* What the caller of the Block API holds at the start: an uncle header
\* (header 1), its own header (header 2), one slice of each kind and two
\* sidecars that are linked to no block yet, and a witness.
In == [uncle |-> 1, hdr |-> 2, txs |-> 1, wds |-> 2, empty |-> 3, uncles |-> 4,
       scs |-> 5, rcpts |-> 6, wit |-> 1]
NewSidecar == [BlockNumber |-> Nil, BlockHash |-> ZeroHash]
CallerMem(v) ==
  [MkHeader(MkHeader(EmptyMem, [BaseHeader EXCEPT !.Time = 0]), v)
     EXCEPT !.lists = <<(<<11>>), (<<31>>), (<<>>), (<<In.uncle>>), (<<1>>), (<<21>>)>>,
                !.scs = <<NewSidecar, NewSidecar>>,
                !.wits = <<[StateDiff |-> 0]>>]
CallerHeld == [hdrs |-> {In.uncle, In.hdr}, lists |-> 1..6]

Bodies(T, U, W) ==
  {[Transactions |-> t, Uncles |-> u, Withdrawals |-> w] : t \in T, u \in U, w \in W}

\* ---------------------------------------------------------------- SpecNew
\* NewBlock on every header, body and receipts the caller can pass.
MaxNew == 1

NewInit ==
  /\ \E v \in HeaderInputs : mem = CallerMem(v)
  /\ held = CallerHeld
  /\ last = NoOp
  /\ steps = [ops |-> 0, muts |-> 0]
  /\ procs = <<>>

NewBodies ==
  {<<>>} \cup {<<bd>> : bd \in Bodies({Nil, In.empty, In.txs}, {Nil, In.empty, In.uncles},
                                     {Nil, In.empty, In.wds})}

NewNext ==
  \E body \in NewBodies, r \in {Nil, In.empty, In.rcpts} :
    /\ steps.ops < MaxNew
    /\ NewBlockOp(In.hdr, body, r)

SpecNew == NewInit /\ [][NewNext]_vars

\* the header of the block the last call returned, and its arguments
RetHeader == HeaderVal(mem, mem.blks[last.ret].header)
LastBody == IF last.body = <<>> THEN EmptyBody ELSE last.body[1]

\* C6: NewBlock overwrites the header's roots from the body, whatever the
\* caller's header held: TxHash is the empty-transactions sentinel iff there
\* are no transactions, else the root of the transactions; UncleHash is the
\* empty-uncles sentinel iff there are no uncles, else the hash of the encoded
\* uncle list; WithdrawalsHash is absent iff the withdrawals are nil, the
\* empty-withdrawals sentinel iff they are non-nil and empty, else their root.
C6_NewBlockRoots ==
  last.op = "NewBlock" =>
    LET txs == LastBody.Transactions
        us == LastBody.Uncles
        ws == LastBody.Withdrawals
    IN /\ (RetHeader.TxHash = EmptyTxsHash) <=> (SliceLen(mem, txs) = 0)
       /\ SliceLen(mem, txs) > 0 => RetHeader.TxHash = DeriveSha(mem.lists[txs])
       /\ (RetHeader.UncleHash = EmptyUncleHash) <=> (SliceLen(mem, us) = 0)
       /\ SliceLen(mem, us) > 0
            => RetHeader.UncleHash = UnclesRLPHash(mem, mem.lists[us])
       /\ (RetHeader.WithdrawalsHash = <<>>) <=> (ws = Nil)
       /\ (ws # Nil /\ SliceLen(mem, ws) = 0)
            <=> (RetHeader.WithdrawalsHash = <<EmptyWithdrawalsHash>>)
       /\ SliceLen(mem, ws) > 0
            => RetHeader.WithdrawalsHash = <<DeriveSha(mem.lists[ws])>>

\* NewBlock was given a header with a withdrawals root and a body without
\* withdrawals, and another time a non-nil empty withdrawals slice.
C6_Witness ==
  /\ last.op = "NewBlock"
  /\ HeaderVal(mem, last.arg).WithdrawalsHash # <<>>
  /\ LastBody.Withdrawals = Nil
  /\ LastBody.Transactions = In.txs
  /\ LastBody.Uncles = In.uncles

\* C7: a block built by NewBlock with no receipts has the empty-receipts
\* sentinel as its receipt root and the all-zero bloom, for every input
\* header; with receipts, their root and their aggregated bloom.
C7_NewBlockReceipts ==
  last.op = "NewBlock" =>
    IF SliceLen(mem, last.rcpts) = 0
    THEN RetHeader.ReceiptHash = EmptyReceiptsHash /\ RetHeader.Bloom = ZeroBloom
    ELSE /\ RetHeader.ReceiptHash = DeriveSha(mem.lists[last.rcpts])
         /\ RetHeader.Bloom = CreateBloom(mem.lists[last.rcpts])

\* ---------------------------------------------------------------- SpecCopy
\* A caller that holds headers, copies them with CopyHeader and writes to
\* the originals and the copies.
CopyInit ==
  /\ \E v \in HeaderInputs : mem = MkHeader(EmptyMem, v)
  /\ held = [hdrs |-> {1}, lists |-> {}]
  /\ last = NoOp
  /\ steps = [ops |-> 0, muts |-> 0]
  /\ procs = <<>>

CopyHeaderOp(h) ==
  Returned(CopyHeader(mem, h), [NoOp EXCEPT !.op = "CopyHeader", !.arg = h])

CopyNext ==
  \/ \E h \in held.hdrs : steps.ops < MaxCopies /\ CopyHeaderOp(h)
  \/ \E h \in held.hdrs : steps.muts < MaxCopyMut /\ Mutate(h)

SpecCopy == CopyInit /\ [][CopyNext]_vars

\* C8 (independence): after copy := CopyHeader(h), a write to one header the
\* caller holds -- to a field, in place to a big integer or to the value
\* behind an optional field, to the Extra bytes or by appending to Extra --
\* leaves every other header the caller holds field-equal to what it was.
C8_CopyHeaderIndependent ==
  [][last'.op = "Mutate" =>
       \A g \in held.hdrs \ {last'.recv} : HeaderVal(mem', g) = HeaderVal(mem, g)]_vars

\* ---------------------------------------------------------------- SpecHash
\* NProcs goroutines call Hash() on one block, step by step: the load of the
\* cache, the computation of the header hash, the store, the return.
TheBlock == Len(NewBlockWithHeader(CallerMem(BaseHeader), In.hdr).m.blks)

\* the caller's memory after b := NewBlockWithHeader(header)
BuiltMem(v) == NewBlockWithHeader(CallerMem(v), In.hdr).m

HashInit ==
  /\ \E v \in HeaderInputs : mem = BuiltMem(v)
  /\ held = CallerHeld
  /\ last = NoOp
  /\ steps = [ops |-> 0, muts |-> 0]
  /\ procs = [p \in 1..NProcs |-> [pc |-> "idle", h |-> <<>>, ret |-> <<>>]]

\* a goroutine enters Hash(); one that has returned may call again
HashCall(p) ==
  /\ procs[p].pc \in {"idle", "done"}
  /\ steps.ops < MaxOps * NProcs
  /\ procs' = [procs EXCEPT ![p] = [pc |-> "load", h |-> <<>>, ret |-> <<>>]]
  /\ steps' = [steps EXCEPT !.ops = @ + 1]
  /\ UNCHANGED <<mem, held, last>>

\* if hash := b.hash.Load(); hash != nil { return *hash }
HashLoad(p) ==
  /\ procs[p].pc = "load"
  /\ procs' = [procs EXCEPT ![p] =
                 IF mem.blks[TheBlock].hash # <<>>
                 THEN [pc |-> "done", h |-> <<>>, ret |-> mem.blks[TheBlock].hash]
                 ELSE [pc |-> "compute", h |-> <<>>, ret |-> <<>>]]
  /\ UNCHANGED <<mem, held, last, steps>>

\* h := b.header.Hash()
HashCompute(p) ==
  /\ procs[p].pc = "compute"
  /\ procs' = [procs EXCEPT ![p].pc = "store",
                            ![p].h = <<HeaderHash(mem, mem.blks[TheBlock].header)>>]
  /\ UNCHANGED <<mem, held, last, steps>>

\* b.hash.Store(&h); return h
HashStore(p) ==
  /\ procs[p].pc = "store"
  /\ mem' = StoreHash(mem, TheBlock, procs[p].h[1]).m
  /\ procs' = [procs EXCEPT ![p].pc = "done", ![p].ret = procs[p].h]
  /\ UNCHANGED <<held, last, steps>>

HashNext ==
  \E p \in 1..NProcs : HashCall(p) \/ HashLoad(p) \/ HashCompute(p) \/ HashStore(p)

SpecHash == HashInit /\ [][HashNext]_vars

\* C1: in every interleaving of the concurrent Hash() calls on one block,
\* every call that has returned returned the same value, that value is the
\* hash of the block's header computed afresh, and the hash cache, once set,
\* never changes to a different value.
C1_HashConcurrent ==
  /\ [](\A p \in 1..NProcs :
          procs[p].pc = "done" =>
            /\ procs[p].ret = <<HeaderHash(mem, mem.blks[TheBlock].header)>>
            /\ \A q \in 1..NProcs : procs[q].pc = "done" => procs[q].ret = procs[p].ret)
  /\ [][mem.blks[TheBlock].hash # <<>>
         => mem'.blks[TheBlock].hash = mem.blks[TheBlock].hash]_vars

\* Two calls found the cache unset; one has stored and returned, the other
\* is about to store over it, and a third call returned the cached value.
C1_Witness ==
  \E p, q, r \in 1..NProcs :
    /\ procs[p].pc = "done" /\ procs[p].ret # <<>>
    /\ procs[q].pc = "store" /\ procs[q].h # <<>>
    /\ procs[r].pc = "load" /\ mem.blks[TheBlock].hash # <<>>
    /\ p # q /\ q # r /\ p # r

\* ---------------------------------------------------------------- Spec
\* A caller that has built a block and applies the Block API to the blocks
\* it has, and writes to the slices and the witness it passed in.
OptList(m, l) == IF l = Nil THEN <<>> ELSE <<m.lists[l]>>

\* What a block shows apart from its two caches: the header's fields, the
\* body slices (nil or their elements, the uncles as headers), the witness
\* and the sidecars with their linkage fields.
BlockFacets(m, b) ==
  [header |-> HeaderVal(m, m.blks[b].header),
   transactions |-> OptList(m, m.blks[b].transactions),
   uncles |-> IF m.blks[b].uncles = Nil THEN <<>>
              ELSE <<[i \in 1..Len(m.lists[m.blks[b].uncles]) |->
                        HeaderVal(m, m.lists[m.blks[b].uncles][i])]>>,
   withdrawals |-> OptList(m, m.blks[b].withdrawals),
   witness |-> IF m.blks[b].witness = Nil THEN <<>> ELSE <<m.wits[m.blks[b].witness]>>,
   sidecars |-> IF m.blks[b].sidecars = Nil THEN <<>>
                ELSE <<[i \in 1..Len(m.lists[m.blks[b].sidecars]) |->
                          [BlockNumber |->
                             OptNum(m, m.scs[m.lists[m.blks[b].sidecars][i]].BlockNumber),
                           BlockHash |->
                             m.scs[m.lists[m.blks[b].sidecars][i]].BlockHash]]>>]

\* the element a caller writes over an element of its slice l
ListAlt == <<12, 32, Nil, In.hdr, Len(CallerMem(BaseHeader).scs), 22>>

FullBody == [Transactions |-> In.txs, Uncles |-> In.uncles, Withdrawals |-> In.wds]

Init ==
  /\ \E v \in HeaderInputs : mem = BuiltMem(v)
  /\ held = CallerHeld
  /\ last = NoOp
  /\ steps = [ops |-> 0, muts |-> 0]
  /\ procs = <<>>

Next ==
  \/ NewBlockOp(In.hdr, <<FullBody>>, In.rcpts)
  \/ \E b \in Blocks, h \in held.hdrs : WithSealOp(b, h)
  \/ \E b \in Blocks, body \in Bodies({Nil, In.txs}, {Nil, In.uncles}, {Nil, In.wds}) :
       WithBodyOp(b, body)
  \/ \E b \in Blocks, l \in {Nil, In.empty, In.wds} : WithWithdrawalsOp(b, l)
  \/ \E b \in Blocks, l \in {Nil, In.empty, In.scs} : WithSidecarsOp(b, l)
  \/ \E b \in Blocks, w \in {Nil, In.wit} : WithWitnessOp(b, w)
  \/ \E b \in Blocks : SetRootOp(b)
  \/ \E b \in Blocks : CleanSidecarsOp(b)
  \/ \E b \in Blocks : HashOp(b)
  \/ \E b \in Blocks : SizeOp(b)
  \/ \E b \in Blocks : HeaderOp(b)
  \/ \E l \in held.lists : \E i \in 1..Len(mem.lists[l]) : MutateList(l, i, ListAlt[l])
  \/ MutateWitness(In.wit)

Spec == Init /\ [][Next]_vars

ApiOps == {"WithSeal", "WithBody", "WithWithdrawals", "WithSidecars", "WithWitness",
           "SetRoot", "CleanSidecars", "Hash", "Size", "Header"}

\* C2: no operation of the Block API changes a non-cache field of a block
\* that exists: across every API call, every block's header fields,
\* transactions, uncles, withdrawals, witness and sidecars (with their
\* linkage fields) stay what they were.
C2_BlockReadOnly ==
  [][last'.op \in ApiOps =>
       \A b \in Blocks : BlockFacets(mem', b) = BlockFacets(mem, b)]_vars

\* a header's fields with an absent Difficulty and Number read as zero
ZeroForNil(v) ==
  [v EXCEPT !.Difficulty = IF @ = <<>> THEN <<0>> ELSE @,
            !.Number = IF @ = <<>> THEN <<0>> ELSE @]

\* the facets an operation does not name
Unnamed(op) ==
  CASE op = "WithBody" -> {"witness", "sidecars"}
    [] op = "WithWithdrawals" -> {"transactions", "uncles", "witness", "sidecars"}
    [] op = "WithSidecars" -> {"transactions", "uncles", "withdrawals", "witness"}
    [] op = "WithWitness" -> {"transactions", "uncles", "withdrawals", "sidecars"}

\* the slice l of a new block n is a sequence of its own: no slice the
\* caller holds and no slice of another block
FreshList(l, n) ==
  /\ l \notin held.lists
  /\ \A b \in Blocks \ {n} :
       \A f \in {"transactions", "uncles", "withdrawals", "sidecars"} : mem.blks[b][f] # l

\* the new block's slice l is nil if the argument a is, else a fresh sequence
\* of a's elements
FreshCopy(l, a, n) ==
  IF a = Nil THEN l = Nil
  ELSE l # Nil /\ FreshList(l, n) /\ mem.lists[l] = mem.lists[a]

\* the new block's uncles: a fresh sequence of copies of the headers of a
FreshUncles(l, a, n) ==
  /\ l # Nil /\ FreshList(l, n)
  /\ Len(mem.lists[l]) = SliceLen(mem, a)
  /\ \A i \in 1..SliceLen(mem, a) :
       /\ HeaderVal(mem, mem.lists[l][i]) = ZeroForNil(HeaderVal(mem, mem.lists[a][i]))
       /\ mem.lists[l][i] \notin held.hdrs

SealKeeps ==
  /\ \A f \in {"transactions", "uncles", "withdrawals", "witness", "sidecars"} :
       mem.blks[last.ret][f] = mem.blks[last.recv][f]
  /\ \A i \in 1..SliceLen(mem, mem.blks[last.ret].sidecars) :
       /\ mem.scs[mem.lists[mem.blks[last.ret].sidecars][i]].BlockNumber
            = mem.hdrs[last.arg].Number
       /\ mem.scs[mem.lists[mem.blks[last.ret].sidecars][i]].BlockHash
            = HeaderHash(mem, last.arg)
  /\ BlockHash(mem, last.ret).ret = HeaderHash(mem, last.arg)

CtorInit ==
  /\ \E v \in HeaderInputs : mem = CallerMem(v)
  /\ held = CallerHeld
  /\ last = NoOp
  /\ steps = [ops |-> 0, muts |-> 0]
  /\ procs = <<>>

CtorNext ==
  \/ NewBlockWithHeaderOp(In.hdr)
  \/ \E body \in {<<>>, <<FullBody>>}, r \in {Nil, In.rcpts} : NewBlockOp(In.hdr, body, r)
  \/ \E b \in Blocks : WithSealOp(b, In.hdr)
  \/ \E b \in Blocks : HashOp(b)
  \/ \E h \in held.hdrs : steps.muts < MaxMut /\ Mutate(h)

SpecCtor == CtorInit /\ [][CtorNext]_vars

\* what b.Header() and b.Hash() return in memory m
HeaderOf(m, b) == HeaderVal(BlockHeader(m, b).m, BlockHeader(m, b).ret)
HashOf(m, b) == BlockHash(m, b).ret

\* C3: NewBlock, NewBlockWithHeader and WithSeal leave the header the caller
\* gave them as it was, and no later write of the caller to a header it
\* holds (a field, in place to Number, Difficulty, BaseFee or the value
\* behind an optional field, the Extra bytes) changes what Header() and
\* Hash() of a block return.
C3_ConstructorsCopy ==
  /\ [][last'.op \in {"NewBlock", "NewBlockWithHeader", "WithSeal"} =>
         /\ mem'.hdrs[last'.arg] = mem.hdrs[last'.arg]
         /\ HeaderVal(mem', last'.arg) = HeaderVal(mem, last'.arg)]_vars
  /\ [][last'.op = "Mutate" =>
         \A b \in Blocks : /\ HeaderOf(mem', b) = HeaderOf(mem, b)
                           /\ HashOf(mem', b) = HashOf(mem, b)]_vars

\* The caller built a block from its header and then wrote 0 in place to
\* the header's Number, which the block still shows as 1.
C3_Witness ==
  /\ last.op = "Mutate"
  /\ last.recv = In.hdr
  /\ last.what = "Number"
  /\ HeaderVal(mem, In.hdr).Number = <<0>>
  /\ \E b \in Blocks : HeaderOf(mem, b).Number = <<1>>

\* ---------------------------------------------------------------- SpecHeader
\* A caller that takes headers out of a block with Header() and writes to them.
HeaderInit ==
  /\ \E v \in HeaderInputs : mem = BuiltMem(v)
  /\ held = CallerHeld
  /\ last = NoOp
  /\ steps = [ops |-> 0, muts |-> 0]
  /\ procs = <<>>

\* the headers the caller got from Header()
FromHeader == held.hdrs \ CallerHeld.hdrs

HeaderNext ==
  \/ \E b \in Blocks : HeaderOp(b)
  \/ \E b \in Blocks : HashOp(b)
  \/ \E h \in FromHeader : steps.muts < MaxMut /\ Mutate(h)

SpecHeader == HeaderInit /\ [][HeaderNext]_vars

\* C4: Header() returns an independent deep copy: a write to a header that
\* Header() returned leaves what Header() and Hash() of every block return
\* unchanged, and no two headers that Header() returned share storage.
C4_HeaderIndependent ==
  /\ [](\A h1, h2 \in FromHeader :
          h1 # h2 => HeaderStorage(mem, h1) \cap HeaderStorage(mem, h2) = {})
  /\ [][last'.op = "Mutate" =>
         \A b \in Blocks : /\ HeaderOf(mem', b) = HeaderOf(mem, b)
                           /\ HashOf(mem', b) = HashOf(mem, b)]_vars

\* ---------------------------------------------------------------- SpecWire
\* A caller that decodes blocks from their encodings, derives blocks and
\* asks for sizes.
WireHeaders ==
  {BaseHeader, AllOptional,
   [AllOptional EXCEPT !.Difficulty = <<>>, !.Number = <<>>],
   [BaseHeader EXCEPT !.ParentBeaconRoot = <<RawHash(1)>>]}
WireBodies ==
  {EmptyBody, FullBody, [EmptyBody EXCEPT !.Withdrawals = In.empty]}

\* the encoding of the block with header v and body bd
WireOf(v, bd) ==
  EncodeRLP(WithBody(BuiltMem(v), TheBlock, bd).m,
            WithBody(BuiltMem(v), TheBlock, bd).ret)
WireInputs == {WireOf(v, bd) : v \in WireHeaders, bd \in WireBodies}

WireNext ==
  \/ \E w \in WireInputs : DecodeNewOp(w)
  \/ \E b \in Blocks, w \in WireInputs : DecodeRLPOp(b, w)
  \/ \E b \in Blocks : SizeOp(b)
  \/ \E body \in {<<>>, <<FullBody>>} : NewBlockOp(In.hdr, body, Nil)
  \/ \E b \in Blocks, l \in {Nil, In.empty, In.wds} : WithWithdrawalsOp(b, l)
  \/ \E b \in Blocks : SetRootOp(b)

SpecWire == HeaderInit /\ [][WireNext]_vars

\* C5: Size() is the byte length of the block's encoding [header,
\* transactions, uncles, withdrawals?]: the size cache of every block, once
\* it is not 0 -- set by Size() or by DecodeRLP -- is the length of the
\* block's encoding, and Size() returns that length, computed or cached.
C5_SizeIsWireLength ==
  /\ \A b \in Blocks :
       mem.blks[b].size > 0 => mem.blks[b].size = WireSize(EncodeRLP(mem, b))
  /\ last.op = "Size" =>
       /\ last.ret = WireSize(EncodeRLP(mem, last.recv))
       /\ last.ret > 0
       /\ mem.blks[last.recv].size = last.ret

\* Size() returned the cached size of a block that DecodeRLP built.
C5_Witness ==
  /\ last.op = "Size"
  /\ last.what = "cached"
  /\ last.recv # TheBlock
  /\ mem.blks[last.recv].withdrawals # Nil

\* ---------------------------------------------------------------- SpecSeal
\* Fixed number of extra-data suffix bytes reserved for signer seal
extraSeal == 65

\* the encoding of a *big.Int or *uint64 and of a *common.Hash in a list of
\* interface values: a nil pointer is written as the empty string
SigInt(m, p) == IF p = Nil THEN 0 ELSE m.nums[p]
SigHash(m, p) == IF p = Nil THEN EmptyString ELSE m.hcells[p]

\* the 16 values toEncode starts with; header.Extra[:len(header.Extra)-extraSeal]
SigBase(m, s, chainId) ==
  <<SigInt(m, chainId), s.ParentHash, s.UncleHash, s.Coinbase, s.Root, s.TxHash,
    s.ReceiptHash, s.Bloom, SigInt(m, s.Difficulty), SigInt(m, s.Number), s.GasLimit,
    s.GasUsed, s.Time, SubSeq(m.arrs[s.Extra.arr], 1, s.Extra.len - extraSeal),
    s.MixDigest, s.Nonce>>

\* what is appended if header.ParentBeaconRoot != nil
SigCancun(m, s) ==
  <<SigInt(m, s.BaseFee), SigHash(m, s.WithdrawalsHash), SigInt(m, s.BlobGasUsed),
    SigInt(m, s.ExcessBlobGas), SigHash(m, s.ParentBeaconRoot)>>
  \o (IF s.RequestsHash # Nil THEN <<SigHash(m, s.RequestsHash)>> ELSE <<>>)

\* An EncodeSigHeader that appends the later fields whenever BaseFee is set.
EncodeSigHeaderByBaseFee(m, h, chainId) ==
  IF m.hdrs[h].Extra.len < extraSeal
  THEN [panic |-> TRUE, items |-> <<>>]
  ELSE [panic |-> FALSE,
        items |-> SigBase(m, m.hdrs[h], chainId)
                  \o (IF m.hdrs[h].BaseFee # Nil
                      THEN SigCancun(m, m.hdrs[h]) ELSE <<>>)]

\* An EncodeSigHeader that truncates an Extra shorter than the seal to nothing.
SealPrefixLen(n) == IF n < extraSeal THEN 0 ELSE n - extraSeal
EncodeSigHeaderTruncating(m, h, chainId) ==
  [panic |-> FALSE,
   items |-> [SigBase(m, m.hdrs[h], chainId) EXCEPT ![14] =
                SubSeq(SliceBytes(m, m.hdrs[h].Extra), 1,
                       SealPrefixLen(m.hdrs[h].Extra.len))]]

\* EncodeSigHeader: the list of values handed to rlp.Encode, or the panic of
\* the slice expression when Extra is shorter than extraSeal
EncodeSigHeader(m, h, chainId) ==
  IF m.hdrs[h].Extra.len < extraSeal
  THEN [panic |-> TRUE, items |-> <<>>]
  ELSE [panic |-> FALSE,
        items |-> SigBase(m, m.hdrs[h], chainId)
                  \o (IF m.hdrs[h].ParentBeaconRoot # Nil
                      THEN SigCancun(m, m.hdrs[h]) ELSE <<>>)]

\* hasher.Sum over what EncodeSigHeader wrote
SealSum(e) ==
  [e EXCEPT !.items = IF e.panic THEN <<>> ELSE <<(<<"keccak", "sig", e.items>>)>>]

\* SealHash returns the hash of a block prior to it being sealed: hash is
\* <<>> when the call panicked.
SealHash(m, h, chainId) == SealSum(EncodeSigHeader(m, h, chainId)).items

\* a call of SealHash by the caller; the header is only read
SealHashOp(h, chainId) ==
  Called(mem, [NoOp EXCEPT !.op = "SealHash", !.recv = h, !.arg = chainId,
                           !.hash = SealHash(mem, h, chainId),
                           !.err = EncodeSigHeader(mem, h, chainId).panic,
                           !.items = EncodeSigHeader(mem, h, chainId).items])

Seal == [i \in 1..extraSeal |-> 0]
SealExtras ==
  {SubSeq(Seal, 2, extraSeal), Seal, <<1>> \o Seal, <<0>> \o Seal,
   <<1>> \o [Seal EXCEPT ![extraSeal] = 1]}
SealProfiles ==
  {BaseHeader, AllOptional,
   [AllOptional EXCEPT !.RequestsHash = <<RawHash(1)>>],
   [AllOptional EXCEPT !.RequestsHash = <<>>],
   [AllOptional EXCEPT !.ParentBeaconRoot = <<>>],
   [BaseHeader EXCEPT !.ParentBeaconRoot = <<RawHash(1)>>]}
SealHeaders ==
  {[p EXCEPT !.Extra = e, !.ExtraCap = Len(e)] : p \in SealProfiles, e \in SealExtras}

\* the caller's chain id and its two headers
SealIn == [chain |-> 1, a |-> 1, b |-> 2]

SealInit ==
  /\ \E v \in SealHeaders, w \in SealHeaders :
       mem = MkHeader(MkHeader(AllocNum(EmptyMem, 56), v), w)
  /\ held = [hdrs |-> {SealIn.a, SealIn.b}, lists |-> {}]
  /\ last = NoOp
  /\ steps = [ops |-> 0, muts |-> 0]
  /\ procs = <<>>

SealNext ==
  \E h \in held.hdrs, c \in {Nil, SealIn.chain} : SealHashOp(h, c)

SpecSeal == SealInit /\ [][SealNext]_vars

\* what a field that may be absent contributes to the list
OptEnc(x, absent) == IF x = <<>> THEN absent ELSE x[1]

\* the 16 base fields of header h, with extraData short of its seal suffix
BaseFields(v, chain) ==
  <<OptEnc(chain, 0), v.ParentHash, v.UncleHash, v.Coinbase, v.Root, v.TxHash,
    v.ReceiptHash, v.Bloom, OptEnc(v.Difficulty, 0), OptEnc(v.Number, 0), v.GasLimit,
    v.GasUsed, v.Time, SubSeq(v.Extra, 1, Len(v.Extra) - extraSeal), v.MixDigest,
    v.Nonce>>

\* [baseFeePerGas, withdrawalsRoot, blobGasUsed, excessBlobGas, parentBeaconBlockRoot]
CancunFields(v) ==
  <<OptEnc(v.BaseFee, 0), OptEnc(v.WithdrawalsHash, EmptyString),
    OptEnc(v.BlobGasUsed, 0), OptEnc(v.ExcessBlobGas, 0), v.ParentBeaconRoot[1]>>

\* the fields the presence rule selects for header value v
SelectedFields(v, chain) ==
  IF v.ParentBeaconRoot = <<>> THEN BaseFields(v, chain)
  ELSE IF v.RequestsHash = <<>> THEN BaseFields(v, chain) \o CancunFields(v)
  ELSE BaseFields(v, chain) \o CancunFields(v) \o <<v.RequestsHash[1]>>

\* two successive SealHash calls that both returned a hash
TwoSeals ==
  /\ last.op = "SealHash" /\ ~last.err
  /\ last'.op = "SealHash" /\ ~last'.err
  /\ last'.arg = last.arg

\* C11: the list SealHash hashes is selected by presence alone: the 16 base
\* fields when parentBeaconBlockRoot is absent, whatever the other optional
\* fields hold; the five later fields appended in order when it is present;
\* requestsHash appended as the 22nd when it is present too, so that two
\* headers that differ in requestsHash only have different seal hashes.
C11_SealFields ==
  [][/\ (last'.op = "SealHash" /\ ~last'.err) =>
         /\ last'.items = SelectedFields(HeaderVal(mem', last'.recv), OptNum(mem', last'.arg))
         /\ Len(last'.items) =
              IF mem'.hdrs[last'.recv].ParentBeaconRoot = Nil THEN 16
              ELSE IF mem'.hdrs[last'.recv].RequestsHash = Nil THEN 21 ELSE 22
         /\ last'.hash = <<(<<"keccak", "sig", last'.items>>)>>
     /\ (/\ TwoSeals
         /\ HeaderVal(mem, last.recv).ParentBeaconRoot # <<>>
         /\ HeaderVal(mem, last.recv).RequestsHash # HeaderVal(mem, last'.recv).RequestsHash
         /\ [HeaderVal(mem, last.recv) EXCEPT !.RequestsHash = <<>>]
              = [HeaderVal(mem, last'.recv) EXCEPT !.RequestsHash = <<>>])
        => last'.hash # last.hash]_vars

\* a seal hash over 22 fields was returned, and one over 16 fields for a
\* header that holds a requestsHash
C11_Witness ==
  /\ last.op = "SealHash" /\ ~last.err /\ Len(last.items) = 22
  /\ \E h \in held.hdrs :
       mem.hdrs[h].ParentBeaconRoot = Nil /\ mem.hdrs[h].RequestsHash # Nil

\* the bytes of e before its last extraSeal bytes
BeforeSeal(e) == SubSeq(e, 1, Len(e) - extraSeal)

\* C12: SealHash leaves out exactly the last 65 bytes of extraData: headers
\* that differ only within them have the same seal hash, a difference in an
\* earlier byte changes the encoded fields; an extraData shorter than 65
\* bytes makes the call panic and return no hash; the header is not modified.
C12_SealSuffix ==
  [][/\ last'.op = "SealHash" =>
         /\ mem' = mem
         /\ last'.err = (Len(HeaderVal(mem, last'.recv).Extra) < 65)
         /\ last'.err => last'.hash = <<>>
         /\ ~last'.err => Len(last'.hash) = 1
     /\ (/\ TwoSeals
         /\ [HeaderVal(mem, last.recv) EXCEPT !.Extra = <<>>]
              = [HeaderVal(mem, last'.recv) EXCEPT !.Extra = <<>>]
         /\ Len(HeaderVal(mem, last.recv).Extra) = Len(HeaderVal(mem, last'.recv).Extra))
        => /\ BeforeSeal(HeaderVal(mem, last.recv).Extra)
                = BeforeSeal(HeaderVal(mem, last'.recv).Extra)
              => last'.hash = last.hash
           /\ BeforeSeal(HeaderVal(mem, last.recv).Extra)
                # BeforeSeal(HeaderVal(mem, last'.recv).Extra)
              => last'.items # last.items]_vars

\* a call on a header with a short extraData has panicked, next to a header
\* whose extraData differs from another's in the seal suffix only
C12_Witness ==
  /\ last.op = "SealHash" /\ last.err
  /\ Len(HeaderVal(mem, last.recv).Extra) = extraSeal - 1

\* -------------------------------------------------------------- SpecSanity
\* A big.Int whose size matters is held as its sign and magnitude, the
\* magnitude as its bits, most significant first and without leading zeros.
Big(neg, abs) == [neg |-> neg, abs |-> abs]
\* 2^n - 1 and 2^n
Ones(n) == [i \in 1..n |-> 1]
Pow2(n) == <<1>> \o [i \in 1..n |-> 0]

\* x.BitLen(): the length of the absolute value of x in bits
BitLen(x) == Len(x.abs)
\* x.IsUint64(): whether x can be represented as a uint64
IsUint64(x) == ~x.neg /\ Len(x.abs) <= 64

\* A SanityCheck that rejects the largest values as well.
SanityCheckStrict(m, h) ==
  \/ m.hdrs[h].Number # Nil /\ ~IsUint64(m.nums[m.hdrs[h].Number])
  \/ m.hdrs[h].Difficulty # Nil /\ BitLen(m.nums[m.hdrs[h].Difficulty]) >= 80
  \/ m.hdrs[h].Extra.len >= 100 * 1024
  \/ m.hdrs[h].BaseFee # Nil /\ BitLen(m.nums[m.hdrs[h].BaseFee]) >= 256

\* SanityCheck checks a few basic things -- these checks are way beyond what
\* any 'sane' production values should hold.  TRUE iff an error is returned.
SanityCheck(m, h) ==
  \/ m.hdrs[h].Number # Nil /\ ~IsUint64(m.nums[m.hdrs[h].Number])
  \/ m.hdrs[h].Difficulty # Nil /\ BitLen(m.nums[m.hdrs[h].Difficulty]) > 80
  \/ m.hdrs[h].Extra.len > 100 * 1024
  \/ m.hdrs[h].BaseFee # Nil /\ BitLen(m.nums[m.hdrs[h].BaseFee]) > 256

\* Block.SanityCheck can be used to prevent that unbounded fields are
\* stuffed with junk data to add processing overhead
BlockSanityCheck(m, b) == SanityCheck(m, m.blks[b].header)

SanityCheckOp(h) ==
  Called(mem, [NoOp EXCEPT !.op = "SanityCheck", !.recv = h, !.err = SanityCheck(mem, h)])

BlockSanityCheckOp(b) ==
  Called(mem, [NoOp EXCEPT !.op = "Block.SanityCheck", !.recv = b,
                           !.err = BlockSanityCheck(mem, b)])

\* Headers around each limit: every combination of the three integers with
\* a short extraData, and extraData at and past its limit.
SanityInputs ==
  {[BaseHeader EXCEPT !.Number = n, !.Difficulty = d, !.BaseFee = f] :
     n \in {<<>>, <<Big(FALSE, <<>>)>>, <<Big(FALSE, Ones(64))>>, <<Big(FALSE, Pow2(64))>>,
            <<Big(TRUE, <<1>>)>>},
     d \in {<<>>, <<Big(FALSE, Ones(80))>>, <<Big(FALSE, Pow2(80))>>, <<Big(TRUE, Pow2(80))>>,
            <<Big(TRUE, Ones(80))>>},
     f \in {<<>>, <<Big(FALSE, Ones(256))>>, <<Big(FALSE, Pow2(256))>>}}
  \cup
  {[BaseHeader EXCEPT !.Number = n, !.Difficulty = <<Big(FALSE, Ones(80))>>, !.BaseFee = f,
                      !.Extra = [i \in 1..k |-> 0], !.ExtraCap = k] :
     n \in {<<>>, <<Big(FALSE, Ones(64))>>},
     f \in {<<>>, <<Big(FALSE, Ones(256))>>},
     k \in {100 * 1024, 100 * 1024 + 1}}

\* the header the caller built, and the block made of it when it can be
SanityMem(v) ==
  IF v.Number = <<>> \/ v.Difficulty = <<>>
  THEN MkHeader(EmptyMem, v)
  ELSE NewBlockWithHeader(MkHeader(EmptyMem, v), 1).m

SanityInit ==
  /\ \E v \in SanityInputs : mem = SanityMem(v)
  /\ held = [hdrs |-> {1}, lists |-> {}]
  /\ last = NoOp
  /\ steps = [ops |-> 0, muts |-> 0]
  /\ procs = <<>>

SanityNext ==
  \/ \E h \in held.hdrs : SanityCheckOp(h)
  \/ \E b \in Blocks : BlockSanityCheckOp(b)

SpecSanity == SanityInit /\ [][SanityNext]_vars

\* the header value v is beyond one of the four limits
Insane(v) ==
  \/ v.Number # <<>> /\ (v.Number[1].neg \/ Len(v.Number[1].abs) > 64)
  \/ v.Difficulty # <<>> /\ Len(v.Difficulty[1].abs) > 80
  \/ Len(v.Extra) > 102400
  \/ v.BaseFee # <<>> /\ Len(v.BaseFee[1].abs) > 256

\* C13: Header.SanityCheck returns an error iff the number is not a 64-bit
\* unsigned value, the difficulty has more than 80 bits, extraData has more
\* than 100*1024 bytes or baseFee has more than 256 bits; the values at the
\* limits and absent integers are accepted; the header is unchanged either
\* way; Block.SanityCheck gives the result of SanityCheck on its header.
C13_SanityCheck ==
  [][/\ last'.op = "SanityCheck" =>
         /\ last'.err = Insane(HeaderVal(mem, last'.recv))
         /\ mem' = mem
     /\ last'.op = "Block.SanityCheck" =>
         /\ last'.err = Insane(HeaderVal(mem, mem.blks[last'.recv].header))
         /\ last'.err = SanityCheck(mem, mem.blks[last'.recv].header)
         /\ mem' = mem]_vars

\* a block whose header has its three integers at their limits was accepted
C13_Witness ==
  /\ last.op = "Block.SanityCheck" /\ ~last.err
  /\ mem.hdrs[mem.blks[last.recv].header].Extra.len = 1
  /\ HeaderVal(mem, mem.blks[last.recv].header).Number = <<Big(FALSE, Ones(64))>>
  /\ HeaderVal(mem, mem.blks[last.recv].header).Difficulty = <<Big(FALSE, Ones(80))>>
  /\ HeaderVal(mem, mem.blks[last.recv].header).BaseFee = <<Big(FALSE, Ones(256))>>

\* ------------------------------------------------------------ SpecRequests
MaxRequests == 3

\* sha256 of what was written to a hasher: the writes are digests of a fixed
\* length or one item, so the sequence of writes stands for the bytes
Sha256(written) == <<"sha256", written>>

\* the loop body: if len(item) > 1 { h1.Reset(); h1.Write(item); h2.Write(h1.Sum(..)) }
RequestsStep(h2, item) == IF Len(item) > 1 THEN Append(h2, Sha256(item)) ELSE h2

\* for _, item := range requests, from the i-th item on, h2 holding what
\* was written so far
RECURSIVE RequestsLoop(_, _, _)
RequestsLoop(requests, i, h2) ==
  IF i > Len(requests) THEN h2
  ELSE RequestsLoop(requests, i + 1, RequestsStep(h2, requests[i]))

\* A CalcRequestsHash that skips the empty items only.
CalcRequestsHashNonEmpty(requests) ==
  Sha256(SelectSeq([i \in 1..Len(requests) |-> Sha256(requests[i])],
                   LAMBDA d : d[2] # <<>>))

\* CalcRequestsHash creates the block requestsHash value for a list of requests.
CalcRequestsHash(requests) == Sha256(RequestsLoop(requests, 1, <<>>))

CalcRequestsHashOp(l) ==
  Called(mem, [NoOp EXCEPT !.op = "CalcRequestsHash", !.arg = l,
                           !.hash = <<CalcRequestsHash(mem.lists[l])>>])

\* the requests: an empty one, one of a single byte, two longer ones
RequestItems == {<<>>, <<1>>, <<1, 2>>, <<2, 1>>}
RECURSIVE RequestLists(_)
RequestLists(n) ==
  IF n = 0 THEN {<<>>}
  ELSE RequestLists(n - 1)
       \cup {Append(l, x) : l \in {k \in RequestLists(n - 1) : Len(k) = n - 1},
                            x \in RequestItems}

RequestsInit ==
  /\ \E l \in RequestLists(MaxRequests), k \in RequestLists(MaxRequests) :
       mem = [EmptyMem EXCEPT !.lists = <<l, k>>]
  /\ held = [hdrs |-> {}, lists |-> {1, 2}]
  /\ last = NoOp
  /\ steps = [ops |-> 0, muts |-> 0]
  /\ procs = <<>>

RequestsNext == \E l \in held.lists : CalcRequestsHashOp(l)

SpecRequests == RequestsInit /\ [][RequestsNext]_vars

\* the items of a list that count, in list order
LongItems(l) == SelectSeq(l, LAMBDA x : Len(x) > 1)
\* digest1 of each item of l
Digests(l) == [i \in 1..Len(l) |-> Sha256(l[i])]
\* k is l with two of its items exchanged, both longer than 1 and distinct
SwapOf(l, k) ==
  /\ Len(l) = Len(k)
  /\ \E i, j \in 1..Len(l) :
       /\ Len(l[i]) > 1 /\ Len(l[j]) > 1 /\ l[i] # l[j]
       /\ k = [l EXCEPT ![i] = l[j], ![j] = l[i]]

\* two successive CalcRequestsHash calls
TwoCalcs == last.op = "CalcRequestsHash" /\ last'.op = "CalcRequestsHash"

\* C14: CalcRequestsHash(items) is digest2 of the concatenation, in list
\* order, of digest1(item) for the items of length > 1: lists that differ by
\* items of length 0 or 1 only have the same result, a list of such items
\* only has the result of the empty input, and exchanging two distinct items
\* of length > 1 changes the result.
C14_RequestsHash ==
  [][/\ last'.op = "CalcRequestsHash" =>
         /\ last'.hash = <<Sha256(Digests(LongItems(mem.lists[last'.arg])))>>
         /\ LongItems(mem.lists[last'.arg]) = <<>> => last'.hash = <<Sha256(<<>>)>>
         /\ mem' = mem
     /\ (TwoCalcs /\ LongItems(mem.lists[last.arg]) = LongItems(mem.lists[last'.arg]))
          => last'.hash = last.hash
     /\ (TwoCalcs /\ SwapOf(mem.lists[last.arg], mem.lists[last'.arg]))
          => last'.hash # last.hash]_vars

\* the hash of a list that holds short items between two longer ones
C14_Witness ==
  /\ last.op = "CalcRequestsHash"
  /\ Len(mem.lists[last.arg]) = 3
  /\ Len(LongItems(mem.lists[last.arg])) = 2
  /\ \E l \in held.lists : SwapOf(mem.lists[last.arg], mem.lists[l])

\* -------------------------------------------------------------- SpecParent
\* The header encoding as bytes.  BigEndian: the shortest big-endian form.
RECURSIVE BigEndian(_)
BigEndian(n) == IF n = 0 THEN <<>> ELSE Append(BigEndian(n \div 256), n % 256)
\* a value below 256 as an array of k bytes
FixedBytes(k, n) == [i \in 1..k |-> IF i = k THEN n ELSE 0]
\* the head of a string (base 128) or list (base 192) of n content bytes
RlpHead(base, n) ==
  IF n < 56 THEN <<base + n>> ELSE <<base + 55 + Len(BigEndian(n))>> \o BigEndian(n)
RlpString(b) == IF Len(b) = 1 /\ b[1] < 128 THEN b ELSE RlpHead(128, Len(b)) \o b
RlpList(content) == RlpHead(192, Len(content)) \o content
RlpInt(n) == RlpString(BigEndian(n))
\* a 32-byte hash, or the empty string where a nil hash is written
RlpHash(x) == IF x = EmptyString THEN <<128>> ELSE RlpString(FixedBytes(32, x[2]))
RlpOpt(it, i, Enc(_)) == IF Len(it) >= i THEN Enc(it[i]) ELSE <<>>

\* the bytes Header.EncodeRLP writes for the field encodings it
HeaderBytes(it) ==
  RlpList(RlpHash(it[1]) \o RlpHash(it[2]) \o RlpString(FixedBytes(20, it[3]))
          \o RlpHash(it[4]) \o RlpHash(it[5]) \o RlpHash(it[6])
          \o RlpString(FixedBytes(256, it[7]))
          \o RlpInt(it[8]) \o RlpInt(it[9]) \o RlpInt(it[10]) \o RlpInt(it[11])
          \o RlpInt(it[12]) \o RlpString(it[13]) \o RlpHash(it[14])
          \o RlpString(FixedBytes(8, it[15]))
          \o RlpOpt(it, 16, RlpInt) \o RlpOpt(it, 17, RlpHash) \o RlpOpt(it, 18, RlpInt)
          \o RlpOpt(it, 19, RlpInt) \o RlpOpt(it, 20, RlpHash) \o RlpOpt(it, 21, RlpHash))

\* rlp readSize: the big-endian size in the slen bytes of b, or -1 when b is
\* too short, starts with a zero byte or holds a size below 56
RECURSIVE FromBigEndian(_)
FromBigEndian(b) ==
  IF b = <<>> THEN 0 ELSE FromBigEndian(SubSeq(b, 1, Len(b) - 1)) * 256 + b[Len(b)]
ReadSize(b, slen) ==
  IF Len(b) < slen \/ b[1] = 0 \/ FromBigEndian(SubSeq(b, 1, slen)) < 56 THEN -1
  ELSE FromBigEndian(SubSeq(b, 1, slen))

\* rlp readKind on a non-empty buf: the kind, the tag size and the content
\* size (negative on an error)
ReadKind(buf) ==
  IF buf[1] < 128 THEN [kind |-> "Byte", tag |-> 0, size |-> 1]
  ELSE IF buf[1] < 184
    THEN [kind |-> "String", tag |-> 1,
          size |-> IF buf[1] = 129 /\ Len(buf) > 1 /\ buf[2] < 128 THEN -1
                   ELSE buf[1] - 128]
  ELSE IF buf[1] < 192
    THEN [kind |-> "String", tag |-> buf[1] - 183 + 1,
          size |-> ReadSize(Tail(buf), buf[1] - 183)]
  ELSE IF buf[1] < 248 THEN [kind |-> "List", tag |-> 1, size |-> buf[1] - 192]
  ELSE [kind |-> "List", tag |-> buf[1] - 247 + 1, size |-> ReadSize(Tail(buf), buf[1] - 247)]

\* rlp.Split, given what readKind found: the content, or an error when the
\* size is bad or larger than what follows the tag
SplitKind(buf, k) ==
  IF k.size < 0 \/ k.size > Len(buf) - k.tag
  THEN [kind |-> k.kind, content |-> <<>>, err |-> TRUE]
  ELSE [kind |-> k.kind, content |-> SubSeq(buf, k.tag + 1, k.tag + k.size), err |-> FALSE]
Split(buf) ==
  IF buf = <<>> THEN [kind |-> "Byte", content |-> <<>>, err |-> TRUE]
  ELSE SplitKind(buf, ReadKind(buf))
\* rlp.SplitList and rlp.SplitString
SplitList(buf) == [Split(buf) EXCEPT !.err = @ \/ Split(buf).kind # "List"]
SplitString(buf) == [Split(buf) EXCEPT !.err = @ \/ Split(buf).kind = "List"]

\* common.BytesToHash: b cropped from the left or padded on the left
BytesToHash(b) ==
  IF Len(b) >= 32 THEN SubSeq(b, Len(b) - 31, Len(b))
  ELSE [i \in 1..(32 - Len(b)) |-> 0] \o b

\* A HeaderParentHashFromRLP without the length test.
ParentHashUnchecked(listContent) ==
  IF SplitString(listContent.content).err THEN FixedBytes(32, 0)
  ELSE BytesToHash(SplitString(listContent.content).content)

\* the second half of HeaderParentHashFromRLP: parentHash is the first
\* list element
ParentHash(listContent) ==
  IF SplitString(listContent.content).err THEN FixedBytes(32, 0)
  ELSE IF Len(SplitString(listContent.content).content) # 32 THEN FixedBytes(32, 0)
  ELSE BytesToHash(SplitString(listContent.content).content)

\* HeaderParentHashFromRLP returns the parentHash of an RLP-encoded header.
\* If 'header' is invalid, the zero hash is returned.
HeaderParentHashFromRLP(header) ==
  IF SplitList(header).err THEN FixedBytes(32, 0) ELSE ParentHash(SplitList(header))

HeaderParentHashFromRLPOp(a) ==
  Called(mem, [NoOp EXCEPT !.op = "HeaderParentHashFromRLP", !.arg = a,
                           !.hash = <<HeaderParentHashFromRLP(mem.arrs[a])>>])

\* the encoding of the header the caller holds
Canonical(m) == HeaderBytes(HeaderRLP(m, 1))
\* every proper prefix of it
Truncated(m) == {SubSeq(Canonical(m), 1, k) : k \in 0..(Len(Canonical(m)) - 1)}
\* the encoded fields after the parent hash
AfterParent(m) == SubSeq(Canonical(m), 37, Len(Canonical(m)))
\* encodings whose outer framing is not a well-formed list, whose first
\* element is not a string, or whose first element is not 32 bytes long
Malformed(m) ==
  {RlpString(SubSeq(Canonical(m), 4, Len(Canonical(m)))),
   <<248, 33>> \o SubSeq(Canonical(m), 4, 36),
   <<249, 0, 60>> \o SubSeq(Canonical(m), 4, 63),
   <<250, 0>>, <<192>>, <<5>>,
   RlpList(<<192>> \o AfterParent(m)),
   RlpList(RlpList(SubSeq(Canonical(m), 5, 36)) \o AfterParent(m)),
   RlpList(RlpString(FixedBytes(31, 1)) \o AfterParent(m)),
   RlpList(RlpString(FixedBytes(33, 1)) \o AfterParent(m)),
   RlpList(RlpString(FixedBytes(60, 1)) \o AfterParent(m)),
   RlpList(<<128>> \o AfterParent(m)),
   RlpList(<<5>> \o AfterParent(m)),
   RlpList(<<129, 5>> \o AfterParent(m)),
   RlpList(<<184, 32>> \o SubSeq(Canonical(m), 5, Len(Canonical(m))))}

ParentHeaders ==
  {BaseHeader, AllOptional, [BaseHeader EXCEPT !.ParentHash = RawHash(0)],
   [BaseHeader EXCEPT !.ParentHash = RawHash(255), !.Extra = <<>>, !.ExtraNil = TRUE,
                      !.ExtraCap = 0]}

ParentInit ==
  /\ \E v \in ParentHeaders :
       \E x \in {Canonical(MkHeader(EmptyMem, v))} \cup Truncated(MkHeader(EmptyMem, v))
                \cup Malformed(MkHeader(EmptyMem, v)) :
         mem = AllocArr(MkHeader(EmptyMem, v), x)
  /\ held = [hdrs |-> {1}, lists |-> {}]
  /\ last = NoOp
  /\ steps = [ops |-> 0, muts |-> 0]
  /\ procs = <<>>

ParentNext == HeaderParentHashFromRLPOp(Len(mem.arrs))

SpecParent == ParentInit /\ [][ParentNext]_vars

\* x is c cut short
ProperPrefix(x, c) == Len(x) < Len(c) /\ x = SubSeq(c, 1, Len(x))

\* C15: HeaderParentHashFromRLP returns a 32-byte hash for every byte
\* sequence: the all-zero hash for a truncated or malformed one, and
\* h.ParentHash for the canonical encoding of a header h.
C15_ParentHash ==
  last.op = "HeaderParentHashFromRLP" =>
    /\ Len(last.hash) = 1 /\ Len(last.hash[1]) = 32
    /\ mem.arrs[last.arg] = Canonical(mem)
         => last.hash[1] = FixedBytes(32, mem.hdrs[1].ParentHash[2])
    /\ (\/ ProperPrefix(mem.arrs[last.arg], Canonical(mem))
        \/ mem.arrs[last.arg] \in Malformed(mem))
         => last.hash[1] = FixedBytes(32, 0)

\* the parent hash was read from the encoding of a header with a non-zero one
C15_Witness ==
  /\ last.op = "HeaderParentHashFromRLP"
  /\ mem.arrs[last.arg] = Canonical(mem)
  /\ last.hash[1] # FixedBytes(32, 0)

\* --------------------------------------------------------- SpecWithdrawals
\* rlp.Encode(w, b): what Block.EncodeRLP writes
EncodeRLPOp(b) ==
  Called(mem, [NoOp EXCEPT !.op = "EncodeRLP", !.recv = b, !.items = EncodeRLP(mem, b)])

\* the withdrawals a caller can pass: nil, empty and one withdrawal
WithdrawalsNext ==
  \/ \E b \in Blocks, l \in {Nil, In.empty, In.wds} : WithWithdrawalsOp(b, l)
  \/ \E b \in Blocks, body \in Bodies({Nil, In.txs}, {Nil}, {Nil, In.empty, In.wds}) :
       WithBodyOp(b, body)
  \/ \E b \in Blocks : EncodeRLPOp(b)

SpecWithdrawals == HeaderInit /\ [][WithdrawalsNext]_vars

\* block b of memory m holds the withdrawals of slice l: none for a nil
\* slice, a present list of the same elements otherwise
SameWithdrawals(m, b, l) ==
  IF l = Nil THEN m.blks[b].withdrawals = Nil
  ELSE /\ m.blks[b].withdrawals # Nil
       /\ m.lists[m.blks[b].withdrawals] = m.lists[l]

\* C16: absent and present-but-empty withdrawals are kept apart:
\* WithWithdrawals(nil) gives a block without withdrawals whatever the
\* receiver held, WithWithdrawals(empty) one with present, empty
\* withdrawals, WithBody keeps the state of the body it is given, and the
\* encoding has its fourth element iff the block's withdrawals are non-nil.
C16_WithdrawalsNilOrEmpty ==
  [][/\ last'.op = "WithWithdrawals" => SameWithdrawals(mem', last'.ret, last'.arg)
     /\ last'.op = "WithBody" =>
          SameWithdrawals(mem', last'.ret, last'.body[1].Withdrawals)
     /\ last'.op = "EncodeRLP" =>
          /\ (last'.items.wds # <<>>) = (mem.blks[last'.recv].withdrawals # Nil)
          /\ mem.blks[last'.recv].withdrawals # Nil =>
               last'.items.wds = <<mem.lists[mem.blks[last'.recv].withdrawals]>>]_vars

\* WithWithdrawals(empty) on a block that held a withdrawal has returned a
\* block with present, empty withdrawals
C16_Witness ==
  /\ last.op = "WithWithdrawals" /\ last.arg = In.empty
  /\ mem.blks[last.recv].withdrawals # Nil
  /\ mem.lists[mem.blks[last.recv].withdrawals] # <<>>
  /\ mem.blks[last.ret].withdrawals # Nil
  /\ mem.lists[mem.blks[last.ret].withdrawals] = <<>>

\* --------------------------------------------------------------- SpecMilli
\* A uint64 whose width matters is held as four 16-bit limbs, the least
\* significant first; arithmetic drops the carry out of the last limb.
U64(a, b, c, d) == <<a, b, c, d>>
\* x * k + carry on the limbs from the i-th on, for k and carry below 2^15
RECURSIVE MulAdd(_, _, _, _)
MulAdd(x, k, carry, i) ==
  IF i > 4 THEN <<>>
  ELSE <<(x[i] * k + carry) % 65536>> \o MulAdd(x, k, (x[i] * k + carry) \div 65536, i + 1)
\* x + y on the limbs from the i-th on
RECURSIVE AddU64(_, _, _, _)
AddU64(x, y, carry, i) ==
  IF i > 4 THEN <<>>
  ELSE <<(x[i] + y[i] + carry) % 65536>>
       \o AddU64(x, y, (x[i] + y[i] + carry) \div 65536, i + 1)
\* x % k for k below 2^15
ModU64(x, k) ==
  ((((((x[4] % k) * 65536 + x[3]) % k) * 65536 + x[2]) % k) * 65536 + x[1]) % k

\* uint256.NewInt(x).Bytes32(): x as 32 big-endian bytes
Bytes32(x) ==
  [i \in 1..32 |->
     IF i <= 24 THEN 0
     ELSE IF (32 - i) % 2 = 0 THEN x[(32 - i) \div 2 + 1] % 256
     ELSE x[(32 - i) \div 2 + 1] \div 256]
\* uint256.NewInt(0).SetBytes32(b).Uint64(): the low 64 bits of b
Uint64Of(b) == [j \in 1..4 |-> b[33 - 2 * j] * 256 + b[34 - 2 * j]]

\* A SetMilliseconds that stores the argument as it is.
SetMillisecondsRaw(m, h, milliseconds) ==
  [m EXCEPT !.hdrs[h].MixDigest = Bytes32(milliseconds)]

\* SetMilliseconds can be called once millisecond representation supported
SetMilliseconds(m, h, milliseconds) ==
  [m EXCEPT !.hdrs[h].MixDigest = Bytes32(U64(ModU64(milliseconds, 1000), 0, 0, 0))]

\* the milliseconds MilliTimestamp reads from the mix digest
MixMilliseconds(mix) ==
  IF mix # Bytes32(U64(0, 0, 0, 0)) THEN Uint64Of(mix) ELSE U64(0, 0, 0, 0)

\* MilliTimestamp: h.Time*1000 + milliseconds
MilliTimestamp(m, h) ==
  AddU64(MulAdd(m.hdrs[h].Time, 1000, 0, 1), MixMilliseconds(m.hdrs[h].MixDigest), 0, 1)

SetMillisecondsOp(h, ms) ==
  Called(SetMilliseconds(mem, h, ms),
         [NoOp EXCEPT !.op = "SetMilliseconds", !.recv = h, !.arg = ms])

MilliTimestampOp(h) ==
  Called(mem, [NoOp EXCEPT !.op = "MilliTimestamp", !.recv = h,
                           !.arg = IF last.op = "SetMilliseconds" /\ last.recv = h
                                   THEN last.arg ELSE <<>>,
                           !.ret = MilliTimestamp(mem, h)])

\* 0, 1, 1700000000, 2^64 / 1000 rounded up, 2^64 - 1
MilliTimes ==
  {U64(0, 0, 0, 0), U64(1, 0, 0, 0), U64(61696, 25939, 0, 0), U64(42992, 19398, 35127, 65),
   U64(65535, 65535, 65535, 65535)}
\* 0, 1, 999, 1000, 1001, 65541, 2^64 - 1
MilliArgs ==
  {U64(0, 0, 0, 0), U64(1, 0, 0, 0), U64(999, 0, 0, 0), U64(1000, 0, 0, 0),
   U64(1001, 0, 0, 0), U64(5, 1, 0, 0), U64(65535, 65535, 65535, 65535)}
\* the zero hash, a millisecond count, and a mix digest of a sealed block
MilliDigests ==
  {Bytes32(U64(0, 0, 0, 0)), Bytes32(U64(7, 0, 0, 0)), [i \in 1..32 |-> i]}

MilliInit ==
  /\ \E t \in MilliTimes, d \in MilliDigests, v \in {BaseHeader, AllOptional} :
       mem = MkHeader(EmptyMem, [v EXCEPT !.Time = t, !.MixDigest = d])
  /\ held = [hdrs |-> {1}, lists |-> {}]
  /\ last = NoOp
  /\ steps = [ops |-> 0, muts |-> 0]
  /\ procs = <<>>

MilliNext ==
  \/ \E h \in held.hdrs, ms \in MilliArgs : SetMillisecondsOp(h, ms)
  \/ \E h \in held.hdrs : MilliTimestampOp(h)

SpecMilli == MilliInit /\ [][MilliNext]_vars

\* a uint64 below 2^21, and such a uint64 as a number
SmallU64(x) == x[3] = 0 /\ x[4] = 0 /\ x[2] < 32
NumberOf(x) == x[2] * 65536 + x[1]

\* t * 1000 + ms in 64 bits
MilliSum(t, ms) == AddU64(MulAdd(t, 1000, 0, 1), ms, 0, 1)

\* SetMilliseconds changes the mix digest only, and a zero mix digest reads
\* as t * 1000
MilliFrame ==
  /\ last'.op = "SetMilliseconds" =>
       [mem' EXCEPT !.hdrs[last'.recv].MixDigest = mem.hdrs[last'.recv].MixDigest] = mem
  /\ (last'.op = "MilliTimestamp"
       /\ mem.hdrs[last'.recv].MixDigest = Bytes32(U64(0, 0, 0, 0))) =>
       /\ last'.ret = MulAdd(mem.hdrs[last'.recv].Time, 1000, 0, 1)
       /\ SmallU64(mem.hdrs[last'.recv].Time) =>
            NumberOf(last'.ret) = NumberOf(mem.hdrs[last'.recv].Time) * 1000
       /\ mem' = mem

\* C17, as stated: after SetMilliseconds(ms) the mix digest holds ms as a
\* 32-byte big-endian integer and MilliTimestamp() returns t*1000 + ms; a
\* zero mix digest reads as t*1000; SetMilliseconds changes the mix digest
\* only.
C17_MilliExact ==
  [][/\ MilliFrame
     /\ last'.op = "SetMilliseconds" =>
          mem'.hdrs[last'.recv].MixDigest = Bytes32(last'.arg)
     /\ (last'.op = "MilliTimestamp" /\ last'.arg # <<>>) =>
          last'.ret = MilliSum(mem.hdrs[last'.recv].Time, last'.arg)]_vars

\* C17: after SetMilliseconds(ms) the mix digest holds ms mod 1000 as a
\* 32-byte big-endian integer and MilliTimestamp() returns
\* t*1000 + ms mod 1000 in 64 bits; a zero mix digest reads as t*1000 in 64
\* bits; SetMilliseconds changes the mix digest only.
C17_MilliMod1000 ==
  [][/\ MilliFrame
     /\ last'.op = "SetMilliseconds" =>
          /\ mem'.hdrs[last'.recv].MixDigest
               = Bytes32(U64(ModU64(last'.arg, 1000), 0, 0, 0))
          /\ SmallU64(last'.arg) =>
               /\ mem'.hdrs[last'.recv].MixDigest[32] = (NumberOf(last'.arg) % 1000) % 256
               /\ mem'.hdrs[last'.recv].MixDigest[31] = (NumberOf(last'.arg) % 1000) \div 256
               /\ \A i \in 1..30 : mem'.hdrs[last'.recv].MixDigest[i] = 0
     /\ (last'.op = "MilliTimestamp" /\ last'.arg # <<>>) =>
          /\ last'.ret = MilliSum(mem.hdrs[last'.recv].Time,
                                   U64(ModU64(last'.arg, 1000), 0, 0, 0))
          /\ (SmallU64(mem.hdrs[last'.recv].Time) /\ SmallU64(last'.arg)) =>
               NumberOf(last'.ret) = NumberOf(mem.hdrs[last'.recv].Time) * 1000
                                     + (NumberOf(last'.arg) % 1000)]_vars

\* MilliTimestamp() after SetMilliseconds(1001) on a header of time 1 has
\* returned 1001
C17_Witness ==
  /\ last.op = "MilliTimestamp" /\ last.arg = U64(1001, 0, 0, 0)
  /\ mem.hdrs[last.recv].Time = U64(1, 0, 0, 0)
  /\ last.ret = U64(1001, 0, 0, 0)

\* -------------------------------------------------------------- SpecAccess
\* Header value accessors.  Number, Difficulty: new(big.Int).Set(b.header.f)
BlockBig(m, b, f) ==
  [m |-> AllocNum(m, m.nums[m.hdrs[m.blks[b].header][f]]), ret |-> Len(m.nums) + 1]
\* BaseFee, ExcessBlobGas, BlobGasUsed: nil, or a new value set to the field's
BlockOptNum(m, b, f) ==
  IF m.hdrs[m.blks[b].header][f] = Nil THEN [m |-> m, ret |-> Nil] ELSE BlockBig(m, b, f)
\* Extra: common.CopyBytes(b.header.Extra), nil for a nil slice
BlockExtra(m, b) ==
  IF m.hdrs[m.blks[b].header].Extra.arr = Nil THEN [m |-> m, ret |-> NilSlice]
  ELSE [m |-> AllocArr(m, SliceBytes(m, m.hdrs[m.blks[b].header].Extra)),
        ret |-> [arr |-> Len(m.arrs) + 1, len |-> m.hdrs[m.blks[b].header].Extra.len]]
\* BeaconRoot, RequestsHash: return b.header.f
BlockHashPtr(m, b, f) == [m |-> m, ret |-> m.hdrs[m.blks[b].header][f]]
\* GasLimit, Root, ..: return b.header.f, a value
BlockValue(m, b, f) == [m |-> m, ret |-> m.hdrs[m.blks[b].header][f]]

\* the accessor of field f
Accessor(m, b, f) ==
  IF f \in {"Number", "Difficulty"} THEN BlockBig(m, b, f)
  ELSE IF f \in {"BaseFee", "ExcessBlobGas", "BlobGasUsed"} THEN BlockOptNum(m, b, f)
  ELSE IF f = "Extra" THEN BlockExtra(m, b)
  ELSE IF f \in {"ParentBeaconRoot", "RequestsHash"} THEN BlockHashPtr(m, b, f)
  ELSE BlockValue(m, b, f)

\* the fields that have an accessor
AccessorFields ==
  {"Number", "Difficulty", "BaseFee", "ExcessBlobGas", "BlobGasUsed", "Extra",
   "ParentBeaconRoot", "RequestsHash", "GasLimit", "GasUsed", "Time", "MixDigest",
   "Nonce", "Bloom", "Coinbase", "Root", "ParentHash", "TxHash", "ReceiptHash",
   "UncleHash"}

AccessorOp(b, f) ==
  Returned(Accessor(mem, b, f), [NoOp EXCEPT !.op = "Accessor", !.recv = b, !.what = f])

\* the memory after the caller has changed what the accessor of f returned:
\* a write through the pointer, into the bytes, or to its own copy of a value
Written(m, f, ret) ==
  IF f \in {"Number", "Difficulty", "BaseFee", "ExcessBlobGas", "BlobGasUsed"}
  THEN [m EXCEPT !.nums[ret] = OtherNum(@)]
  ELSE IF f \in {"ParentBeaconRoot", "RequestsHash"}
  THEN [m EXCEPT !.hcells[ret] = OtherHash(@)]
  ELSE IF f = "Extra" THEN [m EXCEPT !.arrs[ret.arr][ret.len] = OtherNum(@)]
  ELSE m

\* The caller changes the value the last accessor call returned.
WriteReturned ==
  /\ last.op = "Accessor"
  /\ steps.muts < MaxMut
  /\ last.what = "Extra" => last.ret.len > 0
  /\ last.what \in {"Number", "Difficulty", "BaseFee", "ExcessBlobGas", "BlobGasUsed",
                    "ParentBeaconRoot", "RequestsHash"} => last.ret # Nil
  /\ mem' = Written(mem, last.what, last.ret)
  /\ last' = [NoOp EXCEPT !.op = "Write", !.recv = last.recv, !.what = last.what]
  /\ steps' = [steps EXCEPT !.muts = @ + 1]
  /\ UNCHANGED <<held, procs>>

AccessNext ==
  \/ \E b \in Blocks, f \in AccessorFields : AccessorOp(b, f)
  \/ \E b \in Blocks : HashOp(b)
  \/ WriteReturned

SpecAccess == HeaderInit /\ [][AccessNext]_vars

\* C18: every header value accessor of Block returns a copy: changing the
\* returned value, through a returned pointer or in returned bytes, changes
\* neither what Header() returns afterwards nor what Hash() returns.
C18_AccessorsCopy ==
  [][last'.op = "Write" =>
       \A b \in Blocks : /\ HeaderOf(mem', b) = HeaderOf(mem, b)
                         /\ HashOf(mem', b) = HashOf(mem, b)]_vars

\* --------------------------------------------------------------- SpecCache
\* Blocks made by the constructors and by decoding, then any of Hash, Size,
\* With*, SetRoot and DecodeRLP.
CacheNext ==
  \/ NewBlockWithHeaderOp(In.hdr)
  \/ \E body \in {<<>>, <<FullBody>>} : NewBlockOp(In.hdr, body, Nil)
  \/ \E w \in WireInputs : DecodeNewOp(w)
  \/ \E b \in Blocks, w \in WireInputs : DecodeRLPOp(b, w)
  \/ \E b \in Blocks : HashOp(b)
  \/ \E b \in Blocks : SizeOp(b)
  \/ \E b \in Blocks : SetRootOp(b)
  \/ \E b \in Blocks : WithSealOp(b, In.uncle)
  \/ \E b \in Blocks : WithBodyOp(b, FullBody)
  \/ \E b \in Blocks : WithWithdrawalsOp(b, In.wds)
  \/ \E b \in Blocks : WithSidecarsOp(b, In.scs)
  \/ \E b \in Blocks : WithWitnessOp(b, In.wit)

SpecCache == HeaderInit /\ [][CacheNext]_vars

\* C19: in every reachable state a block whose hash cache is set has it
\* equal to the hash of the block's current header; a block returned by
\* WithSeal, WithBody, WithWithdrawals, WithSidecars or WithWitness starts
\* with unset hash and size caches.
C19_CacheCoherent ==
  /\ \A b \in Blocks :
       mem.blks[b].hash # <<>> => mem.blks[b].hash[1] = HeaderHash(mem, mem.blks[b].header)
  /\ last.op \in {"WithSeal", "WithBody", "WithWithdrawals", "WithSidecars", "WithWitness"}
       => mem.blks[last.ret].hash = <<>> /\ mem.blks[last.ret].size = 0

====
